---------------------------- MODULE Spec2Model ----------------------------
(***************************************************************************)
(* Retrieval-augmented pipeline of the majidkhoshrou-site repository:      *)
(*   - the index-building script services/mr-m/scripts/                    *)
(*     generate_embedding_knowledge.py (FAISS index + metadata pickle),    *)
(*   - the embedding stage backend/libs/generate_knowledge_embeddings.py   *)
(*     (embeddings JSON file),                                             *)
(*   - the chunker backend/libs/processing.py (split_text),                *)
(*   - query construction and retrieval in libs/search.py of both          *)
(*     applications (build_rag_query, query_index).                        *)
(*   - the chat endpoint services/mr-m/app.py (vector store cache, gates), *)
(*   - the rate limiters libs/ratelimiter.py of both applications and the  *)
(*     trust flag of services/mr-m/libs/challenge.py,                      *)
(*   - the pipeline driver backend/main.py with libs/build_faiss_index.py, *)
(*   - the token chunker of backend/extract_knowledge.py.                  *)
(* Python lists are 0-based; the sequences below are 1-based, so Python    *)
(* position p is element p + 1.                                            *)
(***************************************************************************)
EXTENDS Integers, Sequences, FiniteSets, TLC

\* ------------------------------------------------------------------ bounds
MaxChunks == 2
MaxSents == 3
MaxParas == 2
MaxHist == 3
MaxMsgLen == 2
MaxMeta == 3
MaxVecs == 3
MaxChunkSize == 3
MaxTokens == 3
MaxTopK == 3
MaxRetries == 5
MaxDocs == 2
MaxRequests == 2

\* ------------------------------------------------------- program constants
Retries == 5

VARIABLES
  impl,               \* which embedding stage runs: "mrm" (services/mr-m script) or "backend" (backend/libs)
  chunks_file,        \* data/knowledge_chunks.json : list of chunks
  index_file,         \* data/faiss.index           : <<>> (absent) or <<index>>
  metadata_file,      \* data/metadata.pkl          : <<>> (absent) or <<list of records>>
  emb_file,           \* backend embeddings JSON    : <<>> (absent) or <<list of records>>
  pc,                 \* position of the running script: "idle" when no run is in progress
  force,              \* the force / --rebuild argument of the run
  chunks,             \* chunks loaded by the run
  ci,                 \* loop position in embed_chunks (1-based)
  seen_hashes,        \* existing_hashes / seen_hashes set
  existing_metadata,  \* existing_metadata / existing_embeddings
  existing_index,     \* existing_index: <<>> (None) or <<index>>
  new_embeddings,     \* embeddings list built by embed_chunks
  new_metadata,       \* metadata list built by embed_chunks
  index_mem,          \* the in-memory index after index.add
  total_metadata,     \* total_metadata / total_embeddings
  outcome,            \* how the last run ended: "none", "returned", "raised", "crashed"
  hist,               \* observation record of the last run (pre-run files, provider log, counters)
  fn_in,              \* input of the pure function under study
  fn_out              \* its output (<<>> before the call)

pipeVars == <<impl, chunks_file, index_file, metadata_file, emb_file, pc, force, chunks, ci,
              seen_hashes, existing_metadata, existing_index, new_embeddings, new_metadata,
              index_mem, total_metadata, outcome, hist>>
fnVars == <<fn_in, fn_out>>
vars == <<impl, chunks_file, index_file, metadata_file, emb_file, pc, force, chunks, ci,
          seen_hashes, existing_metadata, existing_index, new_embeddings, new_metadata,
          index_mem, total_metadata, outcome, hist, fn_in, fn_out>>

\* ------------------------------------------------------------ text helpers
SP == " "

RECURSIVE LStrip(_)
LStrip(s) == IF s # <<>> /\ Head(s) = SP THEN LStrip(Tail(s)) ELSE s

RECURSIVE RStrip(_)
RStrip(s) == IF s # <<>> /\ s[Len(s)] = SP THEN RStrip(SubSeq(s, 1, Len(s) - 1)) ELSE s

\* str.strip() on a string given as a sequence of characters (or of tokens)
Strip(s) == RStrip(LStrip(s))

\* hashlib.sha256(text.strip().encode()).hexdigest(): SHA-256 is taken to be
\* collision free, so the digest is represented by the stripped text it digests
get_text_hash(text) == <<"sha256", Strip(text)>>

\* f"Source: {source}\nTitle: {title}\nText: {text}"
EmbeddingInput(source, title, text) ==
  <<"Source: ">> \o source \o <<"\nTitle: ">> \o title \o <<"\nText: ">> \o text

\* ------------------------------------------------------------------ chunks
Chunk(id, title, text) == [id |-> id, title |-> title, text |-> text, source_path |-> <<"s">>]

ChunkUniverse ==
  { Chunk(1, <<"t">>, <<"a">>),
    Chunk(2, <<"t">>, <<SP, "a", SP>>),
    Chunk(3, <<"t">>, <<SP>>),
    Chunk(4, <<"u">>, <<"b">>) }

SeqsUpTo(S, n) == UNION { [1..k -> S] : k \in 0..n }

\* the chunk file the chunker writes: its ids are distinct (one per file name and position)
ChunkLists ==
  { cl \in SeqsUpTo(ChunkUniverse, MaxChunks) :
      \A a, b \in 1..Len(cl) : a # b => cl[a].id # cl[b].id }

\* ---------------------------------------------------------------- provider
\* embeddings the provider may answer with: two of one dimension, and the
\* empty list, which is also the one of another dimension
Vectors == { <<1>>, <<2>>, <<>> }

\* one call of client.embeddings.create: it raises, or answers with a vector
Raises == [err |-> TRUE, embedding |-> <<>>]
Answers(v) == [err |-> FALSE, embedding |-> v]

\* the provider's answers to the successive calls made for one chunk:
\* it fails k times and answers v from then on (k: no failure, success on the
\* last attempt, or failure of every attempt)
FailCounts == {0, Retries - 1, Retries}
ProviderBehaviours ==
  { [a \in 1..Retries |-> IF a <= k THEN Raises ELSE Answers(v)] : k \in FailCounts, v \in Vectors }

\* retry_with_backoff(fn, retries): fn's successive results are outs[1], outs[2], ...
RECURSIVE RetryFrom_last(_, _, _)
RetryFrom_last(outs, attempt, retries) ==
  IF attempt > retries THEN [ok |-> FALSE, value |-> <<>>, calls |-> retries]
  ELSE LET later == RetryFrom_last(outs, attempt + 1, retries) IN
       IF later.ok \/ outs[attempt].err THEN later
       ELSE [ok |-> TRUE, value |-> outs[attempt].embedding, calls |-> attempt]

RECURSIVE RetryFrom(_, _, _)
RetryFrom(outs, attempt, retries) ==
  IF attempt > retries THEN [ok |-> FALSE, value |-> <<>>, calls |-> retries]
  ELSE IF ~outs[attempt].err
    THEN [ok |-> TRUE, value |-> outs[attempt].embedding, calls |-> attempt]
  ELSE RetryFrom(outs, attempt + 1, retries)

retry_with_backoff(outs, retries) == RetryFrom(outs, 1, retries)

\* ------------------------------------------- the FAISS flat index (IndexFlatL2)
\* faiss.IndexFlatL2(d): an empty index of dimension d
IndexFlatL2(d) == [d |-> d, vecs |-> <<>>]

\* index.ntotal
ntotal(index) == Len(index.vecs)

\* index.add(x): appends the rows of x after the vectors already held
IndexAdd_front(index, x) == [d |-> index.d, vecs |-> x \o index.vecs]
IndexAdd(index, x) == [d |-> index.d, vecs |-> index.vecs \o x]

\* np.array(new_embeddings).astype("float32") is a matrix only if all rows have one length
Homogeneous(vecs) == \A a, b \in 1..Len(vecs) : Len(vecs[a]) = Len(vecs[b])

Range(s) == { s[k] : k \in 1..Len(s) }

\* ------------------------------- services/mr-m/scripts: embedding + indexing
\* load_existing_hashes(metadata_path) on an existing file
load_existing_hashes_text(metadata) == { get_text_hash(m.text) : m \in Range(metadata) }
load_existing_hashes(metadata) == { get_text_hash(m.embedding_input) : m \in Range(metadata) }

\* the condition of line 106: load the existing pair
ShouldLoad(f, metadata_exists, index_exists) == ~f /\ metadata_exists /\ index_exists

\* the metadata record built at lines 73-81
MrmRecord(chunk, title, text, embedding_input) ==
  [id |-> chunk.id, title |-> title, source_path |-> chunk.source_path,
   text |-> text, embedding_input |-> embedding_input]

NoStep(seen) == [seen |-> seen, emb |-> <<>>, meta |-> <<>>, called |-> FALSE,
                 failed |-> FALSE, input |-> <<>>]

\* one iteration of the loop of embed_chunks (lines 50-84) for `chunk`, with the
\* provider answering outs[1], outs[2], ... to the successive calls
MrmEmbedStep_noSeenAdd(chunk, seen, outs) ==
  LET title == chunk.title
      text == Strip(chunk.text)
      source == chunk.source_path
      embedding_input == EmbeddingInput(source, title, text)
      text_hash == get_text_hash(embedding_input)
      response == retry_with_backoff(outs, Retries)
  IN  IF text = <<>> THEN NoStep(seen)
      ELSE IF text_hash \in seen THEN NoStep(seen)
      ELSE IF response.ok
        THEN [seen |-> seen, emb |-> <<response.value>>,
              meta |-> <<MrmRecord(chunk, title, text, embedding_input)>>,
              called |-> TRUE, failed |-> FALSE, input |-> embedding_input]
        ELSE [seen |-> seen, emb |-> <<>>, meta |-> <<>>,
              called |-> TRUE, failed |-> TRUE, input |-> embedding_input]

MrmEmbedStep(chunk, seen, outs) ==
  LET title == chunk.title
      text == Strip(chunk.text)
      source == chunk.source_path
      embedding_input == EmbeddingInput(source, title, text)
      text_hash == get_text_hash(embedding_input)
      response == retry_with_backoff(outs, Retries)
  IN  IF text = <<>> THEN NoStep(seen)
      ELSE IF text_hash \in seen THEN NoStep(seen)
      ELSE IF response.ok
        THEN [seen |-> seen \cup {text_hash}, emb |-> <<response.value>>,
              meta |-> <<MrmRecord(chunk, title, text, embedding_input)>>,
              called |-> TRUE, failed |-> FALSE, input |-> embedding_input]
        ELSE [seen |-> seen \cup {text_hash}, emb |-> <<>>, meta |-> <<>>,
              called |-> TRUE, failed |-> TRUE, input |-> embedding_input]

\* total_metadata = existing_metadata + new_metadata (line 129)
TotalMetadata_newOnly(existing, new) == new
TotalMetadata(existing, new) == existing \o new

\* lines 121-127: the index that is written; numpy (ragged rows) or faiss
\* (dimension different from the loaded index) raises instead
BuildRaises(existing, new) ==
  \/ ~Homogeneous(new)
  \/ existing # <<>> /\ existing[1].d # Len(new[1])

\* whether the build raises: it does in the cases of BuildRaises; for rows of
\* length 0 on a fresh start, faiss.IndexFlatL2(0) either refuses or accepts them
BuildOutcomes(existing, new) ==
  IF BuildRaises(existing, new) THEN {TRUE}
  ELSE IF new[1] = <<>> THEN {TRUE, FALSE}
  ELSE {FALSE}

BuildIndex(existing, new) ==
  IF existing = <<>> THEN IndexAdd(IndexFlatL2(Len(new[1])), new)
  ELSE IndexAdd(existing[1], new)

\* --------------------------- backend/libs/generate_knowledge_embeddings.py
\* seen_hashes = {get_text_hash(e["text"]) for e in existing_embeddings} (line 153)
BeExistingHashes(embs) == { get_text_hash(e.text) : e \in Range(embs) }

\* the record appended at lines 82-89
BeRecord(chunk, text, embedding) ==
  [id |-> chunk.id, source |-> chunk.source_path, title |-> chunk.title,
   text |-> text, embedding |-> embedding]

\* one iteration of the loop of embed_chunks (lines 60-92)
BeEmbedStep_keepFailed(chunk, seen, outs) ==
  LET text == chunk.text
      text_hash == get_text_hash(text)
      response == retry_with_backoff(outs, Retries)
  IN  IF Strip(text) = <<>> THEN NoStep(seen)
      ELSE IF text_hash \in seen THEN NoStep(seen)
      ELSE [seen |-> seen \cup {text_hash}, emb |-> <<response.value>>,
            meta |-> <<BeRecord(chunk, text, response.value)>>,
            called |-> TRUE, failed |-> ~response.ok, input |-> text]

BeEmbedStep(chunk, seen, outs) ==
  LET text == chunk.text
      text_hash == get_text_hash(text)
      response == retry_with_backoff(outs, Retries)
  IN  IF Strip(text) = <<>> THEN NoStep(seen)
      ELSE IF text_hash \in seen THEN NoStep(seen)
      ELSE IF response.ok /\ response.value # <<>>
        THEN [seen |-> seen \cup {text_hash}, emb |-> <<response.value>>,
              meta |-> <<BeRecord(chunk, text, response.value)>>,
              called |-> TRUE, failed |-> FALSE, input |-> text]
        ELSE [seen |-> seen \cup {text_hash}, emb |-> <<>>, meta |-> <<>>,
              called |-> TRUE, failed |-> TRUE, input |-> text]

\* ------------------------------------------------------- derived quantities
\* the persisted index and metadata, an absent file counting as empty
IndexVecs == IF index_file = <<>> THEN <<>> ELSE index_file[1].vecs
MetaRecs == IF metadata_file = <<>> THEN <<>> ELSE metadata_file[1]
EmbRecs == IF emb_file = <<>> THEN <<>> ELSE emb_file[1]

Returned == pc = "done" /\ outcome = "returned"

Aligned == Len(IndexVecs) = Len(MetaRecs)

\* ------------------------------------------------------- observation record
\* what an observer of the runs records: the files as they were when the run
\* started, the provider's answers of the run in order, for each chunk of the
\* loop the number of provider calls made and whether one answered, and how
\* runs follow each other on one chunk file
Hist0 ==
  [pre_index |-> <<>>, pre_meta |-> <<>>, pre_emb |-> <<>>,
   log |-> <<>>, steps |-> <<>>, failed |-> FALSE, loaded |-> FALSE, mismatch |-> FALSE, wrote |-> FALSE,
   ran |-> FALSE, last_clean |-> FALSE, second |-> FALSE, prev_clean |-> FALSE]

HistStart(f, loaded, mismatch) ==
  [hist EXCEPT !.pre_index = index_file, !.pre_meta = metadata_file, !.pre_emb = emb_file,
               !.log = <<>>, !.steps = <<>>, !.failed = FALSE, !.loaded = loaded, !.mismatch = mismatch,
               !.wrote = FALSE,
               !.second = hist.ran /\ ~f, !.prev_clean = hist.last_clean]

HistStep(h, step, outs) ==
  [h EXCEPT !.log = IF step.called /\ retry_with_backoff(outs, Retries).ok
                      THEN Append(h.log, [input |-> step.input,
                                          vec |-> retry_with_backoff(outs, Retries).value])
                      ELSE h.log,
            !.steps = Append(h.steps,
                             IF step.called
                               THEN [calls |-> retry_with_backoff(outs, Retries).calls,
                                     ok |-> retry_with_backoff(outs, Retries).ok,
                                     vec |-> retry_with_backoff(outs, Retries).value]
                               ELSE [calls |-> 0, ok |-> FALSE, vec |-> <<>>]),
            !.failed = h.failed \/ step.failed]

HistEnd(h, returned, clean) == [h EXCEPT !.ran = returned, !.last_clean = returned /\ clean]

\* ------------------------------------------------------------------ actions
fnIdle == fn_in = [fn |-> "none"] /\ fn_out = <<>>

\* the chunker rewrites data/knowledge_chunks.json
IngestChunks ==
  /\ pc = "idle"
  /\ \E cl \in ChunkLists : chunks_file' = cl
  /\ hist' = [hist EXCEPT !.ran = FALSE, !.last_clean = FALSE]
  /\ UNCHANGED <<impl, index_file, metadata_file, emb_file, pc, force, chunks, ci, seen_hashes,
                 existing_metadata, existing_index, new_embeddings, new_metadata, index_mem,
                 total_metadata, outcome, fn_in, fn_out>>

\* generate_embeddings, lines 95-113: load the chunks and the existing pair
MrmStartRun ==
  /\ impl = "mrm" /\ pc = "idle"
  /\ \E f \in BOOLEAN :
       LET load == ShouldLoad(f, metadata_file # <<>>, index_file # <<>>) IN
       /\ force' = f
       /\ chunks' = chunks_file
       /\ seen_hashes' = IF load THEN load_existing_hashes(metadata_file[1]) ELSE {}
       /\ existing_metadata' = IF load THEN metadata_file[1] ELSE <<>>
       /\ existing_index' = IF load THEN index_file ELSE <<>>
       /\ hist' = HistStart(f, load,
                            load /\ ntotal(index_file[1]) # Len(metadata_file[1]))
  /\ new_embeddings' = <<>> /\ new_metadata' = <<>>
  /\ ci' = 1 /\ pc' = "embed" /\ outcome' = "none"
  /\ UNCHANGED <<impl, chunks_file, index_file, metadata_file, emb_file, index_mem,
                 total_metadata, fn_in, fn_out>>

\* embed_chunks, lines 50-84: one iteration of the loop
MrmEmbedChunk ==
  /\ impl = "mrm" /\ pc = "embed" /\ ci <= Len(chunks)
  /\ \E outs \in ProviderBehaviours :
       LET step == MrmEmbedStep(chunks[ci], seen_hashes, outs) IN
       /\ seen_hashes' = step.seen
       /\ new_embeddings' = new_embeddings \o step.emb
       /\ new_metadata' = new_metadata \o step.meta
       /\ hist' = HistStep(hist, step, outs)
  /\ ci' = ci + 1
  /\ UNCHANGED <<impl, chunks_file, index_file, metadata_file, emb_file, pc, force, chunks,
                 existing_metadata, existing_index, index_mem, total_metadata, outcome,
                 fn_in, fn_out>>

\* generate_embeddings, lines 115-129: nothing new, or build the index and the metadata to save
MrmFinish ==
  /\ impl = "mrm" /\ pc = "embed" /\ ci > Len(chunks)
  /\ IF new_embeddings = <<>>
       THEN /\ pc' = "done" /\ outcome' = "returned"
            /\ hist' = HistEnd(hist, TRUE, ~hist.failed)
            /\ UNCHANGED <<index_mem, total_metadata>>
     ELSE \E raises \in BuildOutcomes(existing_index, new_embeddings) :
       IF raises
         THEN /\ pc' = "done" /\ outcome' = "raised"
              /\ hist' = HistEnd(hist, FALSE, FALSE)
              /\ UNCHANGED <<index_mem, total_metadata>>
       ELSE /\ index_mem' = BuildIndex(existing_index, new_embeddings)
            /\ total_metadata' = TotalMetadata(existing_metadata, new_metadata)
            /\ pc' = "write_index"
            /\ UNCHANGED <<outcome, hist>>
  /\ UNCHANGED <<impl, chunks_file, index_file, metadata_file, emb_file, force, chunks, ci,
                 seen_hashes, existing_metadata, existing_index, new_embeddings, new_metadata,
                 fn_in, fn_out>>

\* save_faiss_index, line 90: faiss.write_index
MrmWriteIndex ==
  /\ impl = "mrm" /\ pc = "write_index"
  /\ index_file' = <<index_mem>>
  /\ pc' = "write_meta"
  /\ hist' = [hist EXCEPT !.wrote = TRUE]
  /\ UNCHANGED <<impl, chunks_file, metadata_file, emb_file, force, chunks, ci, seen_hashes,
                 existing_metadata, existing_index, new_embeddings, new_metadata, index_mem,
                 total_metadata, outcome, fn_in, fn_out>>

\* save_faiss_index, lines 91-92: pickle.dump of the metadata, then the run returns
MrmWriteMetadata ==
  /\ impl = "mrm" /\ pc = "write_meta"
  /\ metadata_file' = <<total_metadata>>
  /\ pc' = "done" /\ outcome' = "returned"
  /\ hist' = HistEnd([hist EXCEPT !.wrote = TRUE], TRUE, ~hist.failed)
  /\ UNCHANGED <<impl, chunks_file, index_file, emb_file, force, chunks, ci, seen_hashes,
                 existing_metadata, existing_index, new_embeddings, new_metadata, index_mem,
                 total_metadata, fn_in, fn_out>>

\* the process is killed during a run (between any two steps)
Crash ==
  /\ pc \notin {"idle", "done"}
  /\ Len(IndexVecs) < MaxVecs
  /\ pc' = "done" /\ outcome' = "crashed"
  /\ hist' = HistEnd(hist, FALSE, FALSE)
  /\ UNCHANGED <<impl, chunks_file, index_file, metadata_file, emb_file, force, chunks, ci,
                 seen_hashes, existing_metadata, existing_index, new_embeddings, new_metadata,
                 index_mem, total_metadata, fn_in, fn_out>>

\* the process of the run exits: its locals are gone, the files stay
Exit ==
  /\ pc = "done"
  /\ pc' = "idle" /\ outcome' = "none"
  /\ force' = FALSE /\ chunks' = <<>> /\ ci' = 1
  /\ seen_hashes' = {} /\ existing_metadata' = <<>> /\ existing_index' = <<>>
  /\ new_embeddings' = <<>> /\ new_metadata' = <<>>
  /\ index_mem' = IndexFlatL2(0) /\ total_metadata' = <<>>
  /\ hist' = [Hist0 EXCEPT !.ran = hist.ran, !.last_clean = hist.last_clean]
  /\ UNCHANGED <<impl, chunks_file, index_file, metadata_file, emb_file, fn_in, fn_out>>

\* backend generate_embeddings, lines 145-156
BeStartRun ==
  /\ impl = "backend" /\ pc = "idle"
  /\ \E f \in BOOLEAN :
       LET existing_embeddings == IF ~f /\ emb_file # <<>> THEN emb_file[1] ELSE <<>> IN
       /\ force' = f
       /\ chunks' = chunks_file
       /\ existing_metadata' = existing_embeddings
       /\ seen_hashes' = BeExistingHashes(existing_embeddings)
       /\ hist' = HistStart(f, ~f, FALSE)
  /\ new_embeddings' = <<>> /\ new_metadata' = <<>>
  /\ ci' = 1 /\ pc' = "embed" /\ outcome' = "none"
  /\ UNCHANGED <<impl, chunks_file, index_file, metadata_file, emb_file, existing_index,
                 index_mem, total_metadata, fn_in, fn_out>>

\* backend embed_chunks, lines 60-92: one iteration of the loop
BeEmbedChunk ==
  /\ impl = "backend" /\ pc = "embed" /\ ci <= Len(chunks)
  /\ \E outs \in ProviderBehaviours :
       LET step == BeEmbedStep(chunks[ci], seen_hashes, outs) IN
       /\ seen_hashes' = step.seen
       /\ new_embeddings' = new_embeddings \o step.emb
       /\ new_metadata' = new_metadata \o step.meta
       /\ hist' = HistStep(hist, step, outs)
  /\ ci' = ci + 1
  /\ UNCHANGED <<impl, chunks_file, index_file, metadata_file, emb_file, pc, force, chunks,
                 existing_metadata, existing_index, index_mem, total_metadata, outcome,
                 fn_in, fn_out>>

\* backend generate_embeddings, lines 158-164: concatenate, save, return
BeFinish ==
  /\ impl = "backend" /\ pc = "embed" /\ ci > Len(chunks)
  /\ total_metadata' = TotalMetadata(existing_metadata, new_metadata)
  /\ emb_file' = <<total_metadata'>>
  /\ pc' = "done" /\ outcome' = "returned"
  /\ hist' = HistEnd([hist EXCEPT !.wrote = TRUE], TRUE, ~hist.failed)
  /\ UNCHANGED <<impl, chunks_file, index_file, metadata_file, force, chunks, ci, seen_hashes,
                 existing_metadata, existing_index, new_embeddings, new_metadata, index_mem,
                 fn_in, fn_out>>

\* ------------------------------------------------------------ specification
Init ==
  /\ impl \in {"mrm", "backend"}
  /\ chunks_file = <<>>
  /\ index_file = <<>> /\ metadata_file = <<>> /\ emb_file = <<>>
  /\ pc = "idle" /\ force = FALSE /\ chunks = <<>> /\ ci = 1
  /\ seen_hashes = {} /\ existing_metadata = <<>> /\ existing_index = <<>>
  /\ new_embeddings = <<>> /\ new_metadata = <<>>
  /\ index_mem = IndexFlatL2(0) /\ total_metadata = <<>>
  /\ outcome = "none" /\ hist = Hist0
  /\ fnIdle

Next ==
  \/ IngestChunks
  \/ MrmStartRun
  \/ MrmEmbedChunk
  \/ MrmFinish
  \/ MrmWriteIndex
  \/ MrmWriteMetadata
  \/ BeStartRun
  \/ BeEmbedChunk
  \/ BeFinish
  \/ Exit

Spec == Init /\ [][Next]_vars

\* the same runs, where the process may also be killed at any point of a run
NextCrash == Next \/ Crash

SpecCrash == Init /\ [][NextCrash]_vars

\* ---------------------------------------- backend/libs/processing.py: split_text
\* the pipeline at rest, for the specifications of the pure functions
PipeIdle ==
  /\ impl = "mrm"
  /\ chunks_file = <<>>
  /\ index_file = <<>> /\ metadata_file = <<>> /\ emb_file = <<>>
  /\ pc = "idle" /\ force = FALSE /\ chunks = <<>> /\ ci = 1
  /\ seen_hashes = {} /\ existing_metadata = <<>> /\ existing_index = <<>>
  /\ new_embeddings = <<>> /\ new_metadata = <<>>
  /\ index_mem = IndexFlatL2(0) /\ total_metadata = <<>>
  /\ outcome = "none" /\ hist = Hist0

\* A paragraph is given as the list of sentences sentence_tokenize finds in it,
\* a sentence as its list of words; the empty paragraph is a blank one.
Sentences == { <<"x">>, <<"y", "z">> }
Paragraphs == SeqsUpTo(Sentences, MaxSents)
Texts == UNION { [1..k -> Paragraphs] : k \in 1..MaxParas }
Overlaps == {0, 5, 10, 20, 50}

RECURSIVE Flatten(_)
Flatten(ss) == IF ss = <<>> THEN <<>> ELSE Head(ss) \o Flatten(Tail(ss))

\* len(" ".join(chunk).split()): the words of a chunk
Words(sents) == Len(Flatten(sents))

\* Python's lst[-k:] : the whole list when k = 0 or k >= len(lst)
SliceLast(lst, k) ==
  IF k = 0 \/ k >= Len(lst) THEN lst ELSE SubSeq(lst, Len(lst) - k + 1, Len(lst))

\* lines 50-55: what is carried over into the next chunk after a yield
CarryOver_first(current_chunk, overlap) ==
  IF overlap > 0 /\ overlap \div 10 < Len(current_chunk)
    THEN SubSeq(current_chunk, 1, overlap \div 10)
  ELSE <<>>
CarryOver(current_chunk, overlap) ==
  IF overlap > 0 THEN SliceLast(current_chunk, overlap \div 10) ELSE <<>>

\* lines 42-60: the loop over the sentences of one paragraph, from sentence k on;
\* out is the list of chunks yielded so far (each a list of sentences)
RECURSIVE SplitLoop(_, _, _, _, _, _, _)
SplitLoop(sentences, k, current_chunk, current_word_count, out, chunk_size, overlap) ==
  IF k > Len(sentences)
    THEN (IF current_chunk # <<>> THEN Append(out, current_chunk) ELSE out)
  ELSE
    LET sentence == sentences[k]
        word_count == Len(sentence)
    IN  IF current_word_count + word_count <= chunk_size
          THEN SplitLoop(sentences, k + 1, Append(current_chunk, sentence),
                         current_word_count + word_count, out, chunk_size, overlap)
        ELSE IF current_chunk # <<>>
          THEN LET kept == CarryOver(current_chunk, overlap) IN
               SplitLoop(sentences, k + 1, Append(kept, sentence),
                         Words(kept) + word_count, Append(out, current_chunk),
                         chunk_size, overlap)
        ELSE SplitLoop(sentences, k + 1, Append(current_chunk, sentence),
                       current_word_count + word_count, out, chunk_size, overlap)

\* the chunks yielded for one paragraph
SplitParagraph(sentences, chunk_size, overlap) ==
  SplitLoop(sentences, 1, <<>>, 0, <<>>, chunk_size, overlap)

\* split_text: blank paragraphs are dropped (line 35), the others are chunked in
\* turn; each yielded chunk is recorded with the paragraph it was yielded for
RECURSIVE SplitFrom(_, _, _, _)
SplitFrom(text, p, chunk_size, overlap) ==
  IF p > Len(text) THEN <<>>
  ELSE IF text[p] = <<>> THEN SplitFrom(text, p + 1, chunk_size, overlap)
  ELSE LET cs == SplitParagraph(text[p], chunk_size, overlap) IN
       [k \in 1..Len(cs) |-> [para |-> p, sents |-> cs[k]]]
         \o SplitFrom(text, p + 1, chunk_size, overlap)

split_text(text, chunk_size, overlap) == SplitFrom(text, 1, chunk_size, overlap)

InitSplit ==
  /\ PipeIdle
  /\ fn_in \in [fn : {"split_text"}, text : Texts, chunk_size : 1..MaxChunkSize,
                overlap : Overlaps]
  /\ fn_out = <<>>

CallSplitText ==
  /\ fn_in.fn = "split_text" /\ fn_out = <<>>
  /\ fn_out' = <<split_text(fn_in.text, fn_in.chunk_size, fn_in.overlap)>>
  /\ UNCHANGED <<pipeVars, fn_in>>

NextSplit == CallSplitText

SpecSplit == InitSplit /\ [][NextSplit]_vars

\* ------------------------------------------------ libs/search.py: build_rag_query
\* A message is a string over the characters "a" and " ".  The tokenizer
\* (tiktoken) is represented by a segmentation into tokens: a letter with the
\* single space before it, if any, is one token; any other space is a token of
\* its own.  Decoding concatenates the tokens.
Chars == {"a", SP}
Messages == SeqsUpTo(Chars, MaxMsgLen)

RECURSIVE Encode(_)
Encode(msg) ==
  IF msg = <<>> THEN <<>>
  ELSE IF Len(msg) >= 2 /\ msg[1] = SP /\ msg[2] # SP
    THEN <<SubSeq(msg, 1, 2)>> \o Encode(SubSeq(msg, 3, Len(msg)))
  ELSE <<SubSeq(msg, 1, 1)>> \o Encode(Tail(msg))

Decode(tokens) == Flatten(tokens)

\* Python's tokens[:n]
Prefix(tokens, n) == SubSeq(tokens, 1, IF n < Len(tokens) THEN n ELSE Len(tokens))

\* " ".join(parts)
RECURSIVE Join(_)
Join(parts) ==
  IF parts = <<>> THEN <<>>
  ELSE IF Len(parts) = 1 THEN parts[1]
  ELSE parts[1] \o <<SP>> \o Join(Tail(parts))

\* [msg["content"] for msg in reversed(history) if msg["role"] == "user"]
RECURSIVE UserMessagesReversed(_)
UserMessagesReversed(history) ==
  IF history = <<>> THEN <<>>
  ELSE LET last == history[Len(history)]
           rest == UserMessagesReversed(SubSeq(history, 1, Len(history) - 1))
       IN  IF last.role = "user" THEN <<last.content>> \o rest ELSE rest

\* the selection loop (mr-m lines 76-82, backend lines 60-65): from message k
\* of user_messages on, with `total_tokens` used and `selected` chosen so far
RECURSIVE SelectLoop_continue(_, _, _, _, _)
SelectLoop_continue(user_messages, k, total_tokens, selected, budget) ==
  IF k > Len(user_messages) THEN [selected |-> selected, total_tokens |-> total_tokens]
  ELSE LET msg == user_messages[k]
           token_count == Len(Encode(msg))
       IN  IF total_tokens + token_count > budget
             THEN SelectLoop_continue(user_messages, k + 1, total_tokens, selected, budget)
           ELSE SelectLoop_continue(user_messages, k + 1, total_tokens + token_count,
                                    <<msg>> \o selected, budget)

RECURSIVE SelectLoop(_, _, _, _, _)
SelectLoop(user_messages, k, total_tokens, selected, budget) ==
  IF k > Len(user_messages) THEN [selected |-> selected, total_tokens |-> total_tokens]
  ELSE LET msg == user_messages[k]
           token_count == Len(Encode(msg))
       IN  IF total_tokens + token_count > budget
             THEN [selected |-> selected, total_tokens |-> total_tokens]
           ELSE SelectLoop(user_messages, k + 1, total_tokens + token_count,
                           <<msg>> \o selected, budget)

\* services/mr-m build_rag_query (lines 53-85); `parts` is the list that is
\* joined, `history` the history messages among them, in the order joined
MrmBuildRagQuery_noTruncate(history, current_message, max_tokens) ==
  LET current_tokens == Encode(current_message)
      remaining_tokens == max_tokens - Len(current_tokens)
      loop == SelectLoop(UserMessagesReversed(history), 1, 0, <<>>, remaining_tokens)
  IN  [truncated |-> FALSE, history |-> loop.selected,
       parts |-> Append(loop.selected, current_message),
       query |-> Strip(Join(Append(loop.selected, current_message)))]

MrmBuildRagQuery(history, current_message, max_tokens) ==
  LET current_tokens == Encode(current_message)
      remaining_tokens == max_tokens - Len(current_tokens)
      loop == SelectLoop(UserMessagesReversed(history), 1, 0, <<>>, remaining_tokens)
  IN  IF remaining_tokens < 0
        THEN LET truncated_current == Decode(Prefix(current_tokens, max_tokens)) IN
             [truncated |-> TRUE, history |-> <<>>, parts |-> <<truncated_current>>,
              query |-> Strip(truncated_current)]
      ELSE [truncated |-> FALSE, history |-> loop.selected,
            parts |-> Append(loop.selected, current_message),
            query |-> Strip(Join(Append(loop.selected, current_message)))]

\* backend build_rag_query (lines 48-72)
BeBuildRagQuery(history, current_message, max_tokens) ==
  LET loop == SelectLoop(UserMessagesReversed(history), 1, 0, <<>>, max_tokens)
      current_tokens == Encode(current_message)
      parts == IF loop.total_tokens + Len(current_tokens) <= max_tokens
                 THEN Append(loop.selected, current_message)
                 ELSE loop.selected
  IN  [truncated |-> FALSE, history |-> loop.selected, parts |-> parts,
       query |-> Strip(Join(parts))]

\* histories: user messages of 0..MaxMsgLen letters or of one letter after a
\* space (one token of two characters), assistant messages of one content
HistoryContents == { [k \in 1..n |-> "a"] : n \in 0..MaxMsgLen } \cup { <<SP, "a">> }
HistoryEntries ==
  [role : {"user"}, content : HistoryContents] \cup [role : {"assistant"}, content : {<<"a">>}]
Histories == SeqsUpTo(HistoryEntries, MaxHist)

InitRag ==
  /\ PipeIdle
  /\ fn_in \in [fn : {"build_rag_query"}, history : Histories,
                current_message : Messages \ {<<>>}, max_tokens : 1..MaxTokens]
  /\ fn_out = <<>>

CallBuildRagQuery ==
  /\ fn_in.fn = "build_rag_query" /\ fn_out = <<>>
  /\ fn_out' = <<[mrm |-> MrmBuildRagQuery(fn_in.history, fn_in.current_message,
                                           fn_in.max_tokens),
                  backend |-> BeBuildRagQuery(fn_in.history, fn_in.current_message,
                                              fn_in.max_tokens)]>>
  /\ UNCHANGED <<pipeVars, fn_in>>

NextRag == CallBuildRagQuery

SpecRag == InitRag /\ [][NextRag]_vars

\* ---------------------------------------------------- libs/search.py: query_index
\* the metadata list of a given length: one distinct record per position
MetaRecord(p) == [source_path |-> <<"s", ToString(p)>>, text |-> <<"text", ToString(p)>>]
MetadataOfLen(n) == [k \in 1..n |-> MetaRecord(k - 1)]

\* index.search(query_vector, top_k)[1][0] on an index of n vectors: the
\* positions of the min(n, top_k) nearest vectors, nearest first, padded with -1
Injective(f) == \A a, b \in DOMAIN f : a # b => f[a] # f[b]
SearchResults(n, top_k) ==
  LET found == IF n < top_k THEN n ELSE top_k IN
  { [k \in 1..top_k |-> IF k <= found THEN f[k] ELSE -1] :
      f \in { g \in [1..found -> 0..(n - 1)] : Injective(g) } }

\* query_index, lines 47-51: metadata[idx] with Python's indexing, where a
\* negative idx counts from the end and an idx outside the list raises IndexError
RECURSIVE QueryLoop(_, _, _, _)
QueryLoop(indices, k, metadata, results) ==
  IF k > Len(indices) THEN [raised |-> FALSE, results |-> results]
  ELSE LET idx == indices[k] IN
       IF idx < Len(metadata)
         THEN IF idx >= 0 THEN QueryLoop(indices, k + 1, metadata, Append(results, metadata[idx + 1]))
              ELSE IF Len(metadata) + idx >= 0
                THEN QueryLoop(indices, k + 1, metadata,
                               Append(results, metadata[Len(metadata) + idx + 1]))
              ELSE [raised |-> TRUE, results |-> <<>>]
       ELSE QueryLoop(indices, k + 1, metadata, results)

query_index(indices, metadata) == QueryLoop(indices, 1, metadata, <<>>)

\* app.py line 167: "\n\n".join(f"Source: {c['source_path']}\n{c['text']}" ...)
RECURSIVE Context(_)
Context(relevant_chunks) ==
  IF relevant_chunks = <<>> THEN <<>>
  ELSE LET c == Head(relevant_chunks)
           item == <<"Source: ">> \o c.source_path \o <<"\n">> \o c.text
       IN  IF Len(relevant_chunks) = 1 THEN item
           ELSE item \o <<"\n\n">> \o Context(Tail(relevant_chunks))

\* a loaded index of n vectors and a loaded metadata list, neither empty as
\* the index script never saves an empty one (their sizes may differ when a
\* file is stale), and the answer of the search
InitQuery ==
  /\ PipeIdle
  /\ \E n \in 1..(MaxMeta + 1), m \in 1..MaxMeta, top_k \in 1..MaxTopK :
       \E indices \in SearchResults(n, top_k) :
         fn_in = [fn |-> "query_index", ntotal |-> n, metadata |-> MetadataOfLen(m),
                  top_k |-> top_k, indices |-> indices]
  /\ fn_out = <<>>

\* chat, lines 164-167: query_index, then the context string unless it raised
CallQueryIndex ==
  /\ fn_in.fn = "query_index" /\ fn_out = <<>>
  /\ LET r == query_index(fn_in.indices, fn_in.metadata) IN
     fn_out' = <<[raised |-> r.raised, results |-> r.results,
                  context |-> IF r.raised THEN <<>> ELSE Context(r.results)]>>
  /\ UNCHANGED <<pipeVars, fn_in>>

NextQuery == CallQueryIndex

SpecQuery == InitQuery /\ [][NextQuery]_vars

\* ------------------------------------ saving, reloading and searching the store
\* an index as generate_embeddings builds it: 1..MaxVecs vectors of one dimension
StoreCoords == {1, 2}
StoreDims == {1, 2}
StoreIndexes ==
  UNION { { [d |-> d, vecs |-> vs] : vs \in SeqsUpTo([1..d -> StoreCoords], MaxVecs) \ {<<>>} }
          : d \in StoreDims }

\* the metric of IndexFlatL2: the squared Euclidean distance
RECURSIVE SquaredL2(_, _)
SquaredL2_first(a, b) == (a[1] - b[1]) * (a[1] - b[1])
SquaredL2(a, b) ==
  IF a = <<>> THEN 0
  ELSE (Head(a) - Head(b)) * (Head(a) - Head(b)) + SquaredL2(Tail(a), Tail(b))

\* index.search(query_vector, top_k)[1][0]: the positions of the min(ntotal, top_k)
\* vectors nearest to the query, nearest first, padded with -1; vectors at
\* equal distance come in an order the library chooses
IndexSearch(index, query_vector, top_k) ==
  LET n == ntotal(index)
      found == IF n < top_k THEN n ELSE top_k
      dist(p) == SquaredL2(index.vecs[p + 1], query_vector)
  IN  { r \in SearchResults(n, top_k) :
          /\ \A a, b \in 1..found : a < b => dist(r[a]) <= dist(r[b])
          /\ \A a \in 1..found : \A p \in 0..(n - 1) :
               (\A b \in 1..found : r[b] # p) => dist(r[a]) <= dist(p) }

RoundTripIdle == [fn |-> "round_trip", loaded |-> FALSE, index |-> IndexFlatL2(0), metadata |-> <<>>]

\* generate_embeddings is about to call save_faiss_index(index, total_metadata, ...)
InitStore ==
  /\ impl = "mrm"
  /\ chunks_file = <<>>
  /\ index_file = <<>> /\ metadata_file = <<>> /\ emb_file = <<>>
  /\ pc = "write_index" /\ force = FALSE /\ chunks = <<>> /\ ci = 1
  /\ seen_hashes = {} /\ existing_metadata = <<>> /\ existing_index = <<>>
  /\ new_embeddings = <<>> /\ new_metadata = <<>>
  /\ index_mem \in StoreIndexes
  /\ total_metadata = MetadataOfLen(ntotal(index_mem))
  /\ outcome = "none" /\ hist = Hist0
  /\ fn_in = RoundTripIdle
  /\ fn_out = <<>>

\* get_faiss_index and load_metadata_pickle (search.py lines 14-29) on the saved files
LoadStore ==
  /\ fn_in = RoundTripIdle
  /\ pc = "done" /\ outcome = "returned"
  /\ index_file # <<>> /\ metadata_file # <<>>
  /\ fn_in' = [fn |-> "round_trip", loaded |-> TRUE,
               index |-> index_file[1], metadata |-> metadata_file[1]]
  /\ UNCHANGED <<pipeVars, fn_out>>

\* query_index (lines 43-51) on the reloaded store, the query vector being the
\* vector that was indexed at position pos
QueryStore ==
  /\ fn_in.fn = "round_trip" /\ fn_in.loaded /\ fn_out = <<>>
  /\ \E pos \in 0..(ntotal(index_mem) - 1), top_k \in 1..MaxTopK :
       \E indices \in IndexSearch(fn_in.index, index_mem.vecs[pos + 1], top_k) :
         LET r == query_index(indices, fn_in.metadata) IN
         fn_out' = <<[pos |-> pos, top_k |-> top_k, indices |-> indices,
                      raised |-> r.raised, results |-> r.results]>>
  /\ UNCHANGED <<pipeVars, fn_in>>

NextStore ==
  \/ MrmWriteIndex
  \/ MrmWriteMetadata
  \/ LoadStore
  \/ QueryStore

SpecStore == InitStore /\ [][NextStore]_vars

\* ------------------------------------------------------- retry_with_backoff
\* fn's results at its successive calls, were it called MaxRetries times: each
\* call raises an Exception or returns a value
FnResults == [1..MaxRetries -> {Raises, Answers(<<1>>), Answers(<<2>>)}]

InitRetry ==
  /\ PipeIdle
  /\ fn_in \in [fn : {"retry_with_backoff"}, outs : FnResults, retries : 0..MaxRetries]
  /\ fn_out = <<>>

CallRetry ==
  /\ fn_in.fn = "retry_with_backoff" /\ fn_out = <<>>
  /\ fn_out' = <<retry_with_backoff(fn_in.outs, fn_in.retries)>>
  /\ UNCHANGED <<pipeVars, fn_in>>

NextRetry == CallRetry

SpecRetry == InitRetry /\ [][NextRetry]_vars /\ WF_vars(CallRetry)

\* ------------------------- backend/libs/processing.py: HTML documents and links
\* An <a href> of a document: an external URL, a relative path to a local
\* page, or a link is_probably_html rejects (.pdf, .png, ...).  `key` is what
\* the seen-link set holds: the URL, or the resolved local path.
LinkE == [kind |-> "http", key |-> "http://e"]
LinkP == [kind |-> "local", key |-> "/site/p.html"]
LinkA == [kind |-> "asset", key |-> "/site/a.pdf"]

\* the link lists of the documents of a run, in the order of the <a> tags
DocLinks ==
  { <<>>, <<LinkE>>, <<LinkP>>, <<LinkE, LinkP>>, <<LinkE, LinkE>>, <<LinkA, LinkE>>,
    <<LinkP, LinkE>> }
DocLists == SeqsUpTo(DocLinks, MaxDocs) \ {<<>>}

\* what happens when a link is followed: the page is read and parsed ("ok"),
\* requests.get / raise_for_status / open / the parser raises ("fail"), the
\* local path does not exist ("missing"), or linked_path.exists() itself raises
\* OSError ("error": a name longer than the file system allows, on the Python
\* versions whose Path.exists lets that error through)
FetchOutcomes ==
  { [e |-> oe, p |-> op] : oe \in {"ok", "fail"}, op \in {"ok", "fail", "missing", "error"} }
OutcomeOf(link, outcomes) == IF link.kind = "http" THEN outcomes.e ELSE outcomes.p

\* the defaults of process_html_file (line 131) and the word minimum of line 153
MinWords == 10
DefaultChunkSize == 500
DefaultOverlap == 50

\* the text of a page as its list of sentences: a document's own body text,
\* and the body text of a linked page
BaseWords == MinWords + 1
BaseText == << [k \in 1..BaseWords |-> "b"] >>
LinkedText(link) == << [k \in 1..BaseWords |-> link.kind] >>

\* the set process_html_file works on: `seen_links or set()` is a new empty
\* set when the caller's set is None or empty, the caller's own set otherwise
SeenOrNew(seen_links) == IF seen_links = {} THEN {} ELSE seen_links

\* extract_first_level_html_links, lines 94-128, from link k on: the texts of
\* the pages read, the seen-link set, and the keys fetched, in order; the
\* exists() test of line 118 is outside the try, so its error leaves the function
RECURSIVE ExtractLinks(_, _, _, _, _, _)
ExtractLinks(links, k, seen, texts, fetched, outcomes) ==
  IF k > Len(links)
    THEN [raised |-> FALSE, seen |-> seen, texts |-> texts, fetched |-> fetched]
  ELSE LET link == links[k] IN
       IF link.kind = "asset" \/ link.key \in seen
         THEN ExtractLinks(links, k + 1, seen, texts, fetched, outcomes)
       ELSE IF OutcomeOf(link, outcomes) = "error"
         THEN [raised |-> TRUE, seen |-> seen \cup {link.key}, texts |-> texts,
               fetched |-> fetched]
       ELSE IF OutcomeOf(link, outcomes) = "missing"
         THEN ExtractLinks(links, k + 1, seen \cup {link.key}, texts, fetched, outcomes)
       ELSE IF OutcomeOf(link, outcomes) = "ok"
         THEN ExtractLinks(links, k + 1, seen \cup {link.key},
                           texts \o LinkedText(link), Append(fetched, link.key), outcomes)
       ELSE ExtractLinks(links, k + 1, seen \cup {link.key}, texts,
                         Append(fetched, link.key), outcomes)

extract_first_level_html_links(links, seen_links, outcomes) ==
  ExtractLinks(links, 1, seen_links, <<>>, <<>>, outcomes)

\* lines 143-154: the chunks of split_text that have more than 10 words
RECURSIVE KeptChunks(_)
KeptChunks(cs) ==
  IF cs = <<>> THEN <<>>
  ELSE (IF Words(Head(cs).sents) > MinWords THEN <<Head(cs).sents>> ELSE <<>>)
         \o KeptChunks(Tail(cs))

\* process_html_file, lines 132-158, for a document that is read and parsed:
\* clean_text makes one paragraph of the body text and the linked texts; any
\* exception that reaches it is logged and the result is the empty list
process_html_file(base_text, links, seen_links, outcomes, chunk_size, overlap) ==
  LET local == SeenOrNew(seen_links)
      ext == extract_first_level_html_links(links, local, outcomes)
      full_text == << base_text \o ext.texts >>
  IN  [chunks |-> IF ext.raised THEN <<>>
                  ELSE KeptChunks(split_text(full_text, chunk_size, overlap)),
       fetched |-> ext.fetched,
       seen_links |-> IF seen_links = {} THEN seen_links ELSE ext.seen]

\* extract_chunks: the HTML files are processed in turn with one set
\* seen_sources, empty at the start (or already holding another source)
InitExtract ==
  /\ PipeIdle
  /\ fn_in \in [fn : {"extract_chunks"}, docs : DocLists, outcomes : FetchOutcomes,
                seen0 : {{}, {"/site/other.html"}}]
  /\ fn_out = <<[di |-> 1, seen_sources |-> fn_in.seen0, fetched |-> <<>>, results |-> <<>>]>>

\* one iteration of the loop of extract_chunks: process_html_file on the next file
ProcessHtmlFile ==
  /\ fn_in.fn = "extract_chunks" /\ fn_out[1].di <= Len(fn_in.docs)
  /\ LET run == fn_out[1]
         r == process_html_file(BaseText, fn_in.docs[run.di], run.seen_sources,
                                fn_in.outcomes, DefaultChunkSize, DefaultOverlap)
     IN  fn_out' = <<[di |-> run.di + 1, seen_sources |-> r.seen_links,
                      fetched |-> run.fetched \o r.fetched,
                      results |-> Append(run.results, r)]>>
  /\ UNCHANGED <<pipeVars, fn_in>>

NextExtract == ProcessHtmlFile

SpecExtract == InitExtract /\ [][NextExtract]_vars

\* ------------------------------------ one document, one paragraph of 600 words
\* The document of the scenario has no link and a body of one paragraph of
\* ScenarioWords words; what varies is how sentence_tokenize cuts it: into
\* sentences of one length (of MinWords words at least), or into two sentences.
ScenarioWords == 600
SentenceOf(n) == [k \in 1..n |-> "w"]
UniformSentences == { [k \in 1..(ScenarioWords \div n) |-> SentenceOf(n)] :
                        n \in { m \in MinWords..ScenarioWords : ScenarioWords % m = 0 } }
TwoSentences == { <<SentenceOf(n), SentenceOf(ScenarioWords - n)>> : n \in 1..(ScenarioWords - 1) }
Segmentations == UniformSentences \cup TwoSentences

InitScenario ==
  /\ PipeIdle
  /\ fn_in \in [fn : {"process_html_file"}, sentences : Segmentations,
                chunk_size : {DefaultChunkSize}, overlap : {DefaultOverlap}]
  /\ fn_out = <<>>

CallProcessHtmlFile ==
  /\ fn_in.fn = "process_html_file" /\ fn_out = <<>>
  /\ fn_out' = <<process_html_file(fn_in.sentences, <<>>, {}, [e |-> "ok", p |-> "ok"],
                                   fn_in.chunk_size, fn_in.overlap)>>
  /\ UNCHANGED <<pipeVars, fn_in>>

NextScenario == CallProcessHtmlFile

SpecScenario == InitScenario /\ [][NextScenario]_vars

\* --------------------------------------- services/mr-m/app.py: the chat endpoint
\* the stores the application may find in its data directory
ChatStores ==
  { [index |-> [d |-> 1, vecs |-> <<<<1>>>>], metadata |-> MetadataOfLen(1)],
    [index |-> [d |-> 1, vecs |-> <<<<2>>, <<1>>>>], metadata |-> MetadataOfLen(2)] }

\* a POST /api/chat: the message, and what the gates, the file system and the
\* two providers answer while it is handled
\* (at most one thing other than the reading of the files goes wrong per
\* request; the challenge is only looked at for a client that is not trusted)
Adversities(r) ==
  { n \in 1..6 : \/ n = 1 /\ r.message = <<>>
                 \/ n = 2 /\ ~r.burst_ok
                 \/ n = 3 /\ ~r.trusted /\ ~r.challenge_ok
                 \/ n = 4 /\ ~r.daily_ok
                 \/ n = 5 /\ r.embed_error
                 \/ n = 6 /\ r.model_error }
ChatRequests ==
  { r \in [message : {<<>>, <<"a">>},
           history : {<<[role |-> "user", content |-> <<"a">>]>>},
           burst_ok : BOOLEAN, trusted : BOOLEAN, challenge_ok : BOOLEAN, daily_ok : BOOLEAN,
           read_error : BOOLEAN, embed_error : BOOLEAN, model_error : BOOLEAN] :
      /\ Cardinality(Adversities(r)) <= 1
      /\ r.trusted => r.challenge_ok }

RagMaxTokens == 2500
ChatTopK == 5
MaxHistoryMessages == 12

\* load_vector_store under lru_cache(maxsize=1): the cached pair if a call has
\* returned before; otherwise read_index and pickle.load, which raise when a
\* file is absent or cannot be read, and whose result is cached when they return
load_vector_store(cache, ifile, mfile, read_error) ==
  IF cache # <<>> THEN [raised |-> FALSE, store |-> cache[1], cache |-> cache]
  ELSE IF ifile = <<>> \/ mfile = <<>> \/ read_error
    THEN [raised |-> TRUE, store |-> [index |-> IndexFlatL2(0), metadata |-> <<>>],
          cache |-> cache]
  ELSE [raised |-> FALSE, store |-> [index |-> ifile[1], metadata |-> mfile[1]],
        cache |-> <<[index |-> ifile[1], metadata |-> mfile[1]]>>]

\* lines 164-167: load, build the query, search, join the context; `indices`
\* is what index.search answers
Retrieve_emptyOnFail(req, loaded, indices) ==
  IF loaded.raised THEN [raised |-> FALSE, context |-> <<>>]
  ELSE IF req.embed_error THEN [raised |-> TRUE, context |-> <<>>]
  ELSE LET r == query_index(indices, loaded.store.metadata) IN
       IF r.raised THEN [raised |-> TRUE, context |-> <<>>]
       ELSE [raised |-> FALSE, context |-> Context(r.results)]

Retrieve(req, loaded, indices) ==
  IF loaded.raised \/ req.embed_error THEN [raised |-> TRUE, context |-> <<>>]
  ELSE LET r == query_index(indices, loaded.store.metadata) IN
       IF r.raised THEN [raised |-> TRUE, context |-> <<>>]
       ELSE [raised |-> FALSE, context |-> Context(r.results)]

NoPrompt == [context |-> <<>>, history |-> <<>>, user |-> <<>>]
Refused(status, error, cache) ==
  [status |-> status, error |-> error, prompted |-> FALSE, model_called |-> FALSE,
   prompt |-> NoPrompt, cache |-> cache]

\* chat(), lines 128-198
chat(req, cache, ifile, mfile, indices) ==
  IF req.message = <<>> THEN Refused(400, "Message is required.", cache)
  ELSE IF ~req.burst_ok THEN Refused(429, "burst", cache)
  ELSE IF ~req.trusted /\ ~req.challenge_ok THEN Refused(403, "challenge_failed", cache)
  ELSE IF ~req.daily_ok THEN Refused(429, "daily", cache)
  ELSE
    LET loaded == load_vector_store(cache, ifile, mfile, req.read_error)
        rag_query == MrmBuildRagQuery(req.history, req.message, RagMaxTokens).query
        found == Retrieve(req, loaded, indices)
        prompt == [context |-> found.context,
                   history |-> SliceLast(req.history, MaxHistoryMessages),
                   user |-> req.message]
    IN  IF found.raised
          THEN Refused(500, "An error occurred while generating a response.", loaded.cache)
        ELSE [status |-> IF req.model_error THEN 500 ELSE 200,
              error |-> IF req.model_error
                          THEN "An error occurred while generating a response." ELSE "",
              prompted |-> TRUE, model_called |-> TRUE, prompt |-> prompt,
              cache |-> loaded.cache]

\* the answers index.search may give for the store the request works with
SearchAnswers(cache, ifile, mfile) ==
  LET index == IF cache # <<>> THEN cache[1].index
               ELSE IF ifile # <<>> THEN ifile[1] ELSE IndexFlatL2(0)
  IN  IF ntotal(index) = 0 THEN { [k \in 1..ChatTopK |-> -1] }
      ELSE IndexSearch(index, <<1>>, ChatTopK)

InitChat ==
  /\ impl = "mrm"
  /\ chunks_file = <<>>
  /\ index_file \in {<<>>} \cup { <<s.index>> : s \in ChatStores }
  /\ metadata_file \in {<<>>} \cup { <<s.metadata>> : s \in ChatStores }
  /\ emb_file = <<>>
  /\ pc = "idle" /\ force = FALSE /\ chunks = <<>> /\ ci = 1
  /\ seen_hashes = {} /\ existing_metadata = <<>> /\ existing_index = <<>>
  /\ new_embeddings = <<>> /\ new_metadata = <<>>
  /\ index_mem = IndexFlatL2(0) /\ total_metadata = <<>>
  /\ outcome = "none" /\ hist = Hist0
  /\ fn_in = [fn |-> "chat", cache |-> <<>>, served |-> 0]
  /\ fn_out = <<>>

\* one request to /api/chat is handled
Chat ==
  /\ fn_in.fn = "chat" /\ fn_in.served < MaxRequests
  /\ \E req \in ChatRequests :
       \E indices \in SearchAnswers(fn_in.cache, index_file, metadata_file) :
         LET r == chat(req, fn_in.cache, index_file, metadata_file, indices) IN
         /\ fn_out' = <<[req |-> req, cache_before |-> fn_in.cache,
                         index_there |-> index_file # <<>>,
                         metadata_there |-> metadata_file # <<>>,
                         status |-> r.status, error |-> r.error, prompted |-> r.prompted,
                         model_called |-> r.model_called, prompt |-> r.prompt]>>
         /\ fn_in' = [fn_in EXCEPT !.cache = r.cache, !.served = fn_in.served + 1]
  /\ UNCHANGED pipeVars

\* the data files are put in place, or one of them is taken away, between requests
DeployStore ==
  /\ fn_in.fn = "chat"
  /\ \E s \in ChatStores :
       /\ <<index_file, metadata_file>> # <<<<s.index>>, <<s.metadata>>>>
       /\ index_file' = <<s.index>> /\ metadata_file' = <<s.metadata>>
  /\ UNCHANGED <<impl, chunks_file, emb_file, pc, force, chunks, ci, seen_hashes,
                 existing_metadata, existing_index, new_embeddings, new_metadata, index_mem,
                 total_metadata, outcome, hist, fn_in, fn_out>>

RemoveIndexFile ==
  /\ fn_in.fn = "chat" /\ index_file # <<>>
  /\ index_file' = <<>>
  /\ UNCHANGED <<impl, chunks_file, metadata_file, emb_file, pc, force, chunks, ci,
                 seen_hashes, existing_metadata, existing_index, new_embeddings, new_metadata,
                 index_mem, total_metadata, outcome, hist, fn_in, fn_out>>

RemoveMetadataFile ==
  /\ fn_in.fn = "chat" /\ metadata_file # <<>>
  /\ metadata_file' = <<>>
  /\ UNCHANGED <<impl, chunks_file, index_file, emb_file, pc, force, chunks, ci,
                 seen_hashes, existing_metadata, existing_index, new_embeddings, new_metadata,
                 index_mem, total_metadata, outcome, hist, fn_in, fn_out>>

NextChat ==
  \/ Chat
  \/ DeployStore
  \/ RemoveIndexFile
  \/ RemoveMetadataFile

SpecChat == InitChat /\ [][NextChat]_vars

\* ------------------------- services/mr-m/app.py: chat requests served by threads
\* (app.run serves each request in a thread of its own; functools.lru_cache
\* holds no lock while the wrapped function runs, so two calls that both miss
\* both run load_vector_store, and each caller gets the pair its own call read)
MaxThreads == 2
Threads == 1..MaxThreads

NoPair == [index |-> <<>>, metadata |-> <<>>]
ThreadStart == [pc |-> "lookup", pair |-> NoPair, status |-> 0]

InitServe ==
  /\ impl = "mrm"
  /\ chunks_file = <<>>
  /\ \E s \in ChatStores : index_file = <<s.index>> /\ metadata_file = <<s.metadata>>
  /\ emb_file = <<>>
  /\ pc = "idle" /\ force = FALSE /\ chunks = <<>> /\ ci = 1
  /\ seen_hashes = {} /\ existing_metadata = <<>> /\ existing_index = <<>>
  /\ new_embeddings = <<>> /\ new_metadata = <<>>
  /\ index_mem = IndexFlatL2(0) /\ total_metadata = <<>>
  /\ outcome = "none" /\ hist = Hist0
  /\ fn_in = [fn |-> "serve", cache |-> <<>>, reads |-> 0,
              th |-> [t \in Threads |-> ThreadStart]]
  /\ fn_out = <<>>

ServeStep(t, thread, cache, reads) ==
  /\ fn_in' = [fn_in EXCEPT !.th[t] = thread, !.cache = cache, !.reads = reads]
  /\ UNCHANGED <<pipeVars, fn_out>>

\* line 164, the lru_cache wrapper: a hit hands out the cached pair, a miss
\* goes on to run load_vector_store
ServeLookup(t) ==
  /\ fn_in.fn = "serve" /\ fn_in.th[t].pc = "lookup"
  /\ IF fn_in.cache # <<>>
       THEN ServeStep(t, [fn_in.th[t] EXCEPT !.pc = "search", !.pair = fn_in.cache[1]],
                      fn_in.cache, fn_in.reads)
       ELSE ServeStep(t, [fn_in.th[t] EXCEPT !.pc = "read_index"], fn_in.cache, fn_in.reads)

\* line 79: get_faiss_index reads faiss.index, and raises when it is absent
ServeReadIndex(t) ==
  /\ fn_in.fn = "serve" /\ fn_in.th[t].pc = "read_index"
  /\ IF index_file = <<>>
       THEN ServeStep(t, [fn_in.th[t] EXCEPT !.pc = "done", !.status = 500],
                      fn_in.cache, fn_in.reads)
       ELSE ServeStep(t, [fn_in.th[t] EXCEPT !.pc = "read_metadata", !.pair.index = index_file],
                      fn_in.cache, fn_in.reads)

\* line 80: load_metadata_pickle reads metadata.pkl, and raises when it is absent
ServeReadMetadata(t) ==
  /\ fn_in.fn = "serve" /\ fn_in.th[t].pc = "read_metadata"
  /\ IF metadata_file = <<>>
       THEN ServeStep(t, [fn_in.th[t] EXCEPT !.pc = "done", !.status = 500, !.pair = NoPair],
                      fn_in.cache, fn_in.reads)
       ELSE ServeStep(t, [fn_in.th[t] EXCEPT !.pc = "return", !.pair.metadata = metadata_file],
                      fn_in.cache, fn_in.reads + 1)

\* line 85 and the wrapper: the pair is returned to the caller; it is put in
\* the cache unless another call has filled the cache in the meantime
ServeReturn(t) ==
  /\ fn_in.fn = "serve" /\ fn_in.th[t].pc = "return"
  /\ ServeStep(t, [fn_in.th[t] EXCEPT !.pc = "search"],
               IF fn_in.cache = <<>> THEN <<fn_in.th[t].pair>> ELSE fn_in.cache,
               fn_in.reads)

\* lines 165-167: query_index searches the pair the request holds; it reads
\* the index and the list and writes neither
ServeQuery(t) ==
  /\ fn_in.fn = "serve" /\ fn_in.th[t].pc = "search"
  /\ \E indices \in IndexSearch(fn_in.th[t].pair.index[1], <<1>>, ChatTopK) :
       LET r == query_index(indices, fn_in.th[t].pair.metadata[1]) IN
       /\ fn_out' = Append(fn_out, [thread |-> t, pair |-> fn_in.th[t].pair,
                                    raised |-> r.raised, results |-> r.results])
       /\ fn_in' = [fn_in EXCEPT !.th[t] = [@ EXCEPT !.pc = "done",
                                                     !.status = IF r.raised THEN 500 ELSE 200]]
  /\ UNCHANGED pipeVars

\* a rebuilt store is put in the data directory while the application runs
ServeDeploy ==
  /\ fn_in.fn = "serve"
  /\ \E s \in ChatStores :
       /\ <<index_file, metadata_file>> # <<<<s.index>>, <<s.metadata>>>>
       /\ index_file' = <<s.index>> /\ metadata_file' = <<s.metadata>>
  /\ UNCHANGED <<impl, chunks_file, emb_file, pc, force, chunks, ci, seen_hashes,
                 existing_metadata, existing_index, new_embeddings, new_metadata, index_mem,
                 total_metadata, outcome, hist, fn_in, fn_out>>

\* a data file is taken away
ServeRemove ==
  /\ fn_in.fn = "serve"
  /\ \/ index_file # <<>> /\ index_file' = <<>> /\ UNCHANGED metadata_file
     \/ metadata_file # <<>> /\ metadata_file' = <<>> /\ UNCHANGED index_file
  /\ UNCHANGED <<impl, chunks_file, emb_file, pc, force, chunks, ci, seen_hashes,
                 existing_metadata, existing_index, new_embeddings, new_metadata, index_mem,
                 total_metadata, outcome, hist, fn_in, fn_out>>

NextServe ==
  \/ \E t \in Threads : ServeLookup(t)
  \/ \E t \in Threads : ServeReadIndex(t)
  \/ \E t \in Threads : ServeReadMetadata(t)
  \/ \E t \in Threads : ServeReturn(t)
  \/ \E t \in Threads : ServeQuery(t)
  \/ ServeDeploy
  \/ ServeRemove

SpecServe == InitServe /\ [][NextServe]_vars

\* ------------------------------ backend/libs/ratelimiter.py: the Redis limiter
\* one IP, its key ratelimit:<ip> in Redis (count 0 = no key), and the threads
\* that call check_and_increment_ip for it; time advances in half windows
RATE_LIMIT == 4
WINDOW_SECONDS == 86400
TickSeconds == WINDOW_SECONDS \div 2
MaxCalls == 5
MaxTicks == 3

LimThreadStart == [pc |-> "get", current |-> 0, result |-> "none"]

InitLimit ==
  /\ PipeIdle
  /\ fn_in = [fn |-> "limit", count |-> 0, expires |-> 0, now |-> 0,
              first |-> 0, admitted |-> 0, calls |-> 0,
              th |-> [t \in Threads |-> LimThreadStart]]
  /\ fn_out = <<>>

\* lines 42-44: r.get(key); False when the value read has reached RATE_LIMIT
LimGet(t) ==
  /\ fn_in.fn = "limit" /\ fn_in.th[t].pc = "get" /\ fn_in.calls < MaxCalls
  /\ fn_in' = [fn_in EXCEPT
       !.calls = @ + 1,
       !.th[t] = IF fn_in.count # 0 /\ fn_in.count >= RATE_LIMIT
                   THEN [pc |-> "get", current |-> fn_in.count, result |-> "false"]
                   ELSE [pc |-> "incr", current |-> fn_in.count, result |-> "none"]]
  /\ UNCHANGED <<pipeVars, fn_out>>

\* lines 46-51: the pipeline (a MULTI/EXEC transaction) increments the key and
\* sets its time to live to WINDOW_SECONDS; the call returns True
LimIncr(t) ==
  /\ fn_in.fn = "limit" /\ fn_in.th[t].pc = "incr"
  /\ fn_in' = [fn_in EXCEPT
       !.count = @ + 1,
       !.expires = fn_in.now + WINDOW_SECONDS,
       !.first = IF fn_in.count = 0 THEN fn_in.now ELSE @,
       !.admitted = IF fn_in.count = 0 THEN 1 ELSE @ + 1,
       !.th[t] = [pc |-> "get", current |-> fn_in.th[t].current, result |-> "true"]]
  /\ UNCHANGED <<pipeVars, fn_out>>

\* time passes; Redis drops the key when its time to live has run out
LimTick ==
  /\ fn_in.fn = "limit" /\ fn_in.now < MaxTicks * TickSeconds
  /\ LET now == fn_in.now + TickSeconds
         gone == fn_in.count # 0 /\ fn_in.expires <= now
     IN  fn_in' = [fn_in EXCEPT !.now = now,
                                !.count = IF gone THEN 0 ELSE @,
                                !.admitted = IF gone THEN 0 ELSE @]
  /\ UNCHANGED <<pipeVars, fn_out>>

NextLimit ==
  \/ \E t \in Threads : LimGet(t)
  \/ \E t \in Threads : LimIncr(t)
  \/ LimTick

SpecLimit == InitLimit /\ [][NextLimit]_vars

\* --------------------------------- services/mr-m/libs/challenge.py: the trust flag
TRUST_TTL_SECONDS == 7200
TrustTickSeconds == TRUST_TTL_SECONDS \div 2

\* the module-level names of services/mr-m/libs/ratelimiter.py
RatelimiterNames ==
  { "os", "datetime", "timezone", "timedelta", "Decimal", "RATE_LIMIT", "TABLE_NAME",
    "_today_str", "_ttl_until_midnight_utc", "_get_ip_key", "_ddb_table", "_get_ddb_table",
    "_ddb_check_and_increment", "_ddb_get_quota", "_r", "_get_redis",
    "_redis_check_and_increment", "_redis_get_quota", "_mem", "_mem_check_and_increment",
    "_mem_get_quota", "check_and_increment_ip", "get_ip_quota" }

\* challenge.py lines 8-11: `from libs.ratelimiter import r` binds the client
\* when the module has that name, and leaves r = None when the import raises
ImportR(names) == IF "r" \in names THEN "client" ELSE "None"

\* the key trust:<ip> is there until its time to live has run out (0 = no key)
TrustKeyLives(expires, now) == expires > now

\* is_trusted, lines 78-85 (Redis answering)
is_trusted(r, expires, now) ==
  IF r = "None" THEN FALSE ELSE TrustKeyLives(expires, now)

\* mark_trusted, lines 87-94: the expiry of the key after the call
mark_trusted(r, expires, now) ==
  IF r = "None" THEN expires ELSE now + TRUST_TTL_SECONDS

InitTrust ==
  /\ PipeIdle
  /\ fn_in = [fn |-> "trust", r |-> ImportR(RatelimiterNames), expires |-> 0, now |-> 0]
  /\ fn_out = <<>>

\* app.py lines 147-153: one chat request of the IP reaches the challenge gate,
\* with a token the provider accepts or not
TrustGate ==
  /\ fn_in.fn = "trust" /\ Len(fn_out) < MaxCalls
  /\ \E challenge_ok \in BOOLEAN :
       LET trusted == is_trusted(fn_in.r, fn_in.expires, fn_in.now)
           marks == ~trusted /\ challenge_ok
       IN  /\ fn_out' = Append(fn_out, [at |-> fn_in.now, trusted |-> trusted,
                                        challenged |-> ~trusted,
                                        challenge_ok |-> challenge_ok, marked |-> marks,
                                        status |-> IF trusted \/ challenge_ok THEN 0 ELSE 403])
           /\ fn_in' = [fn_in EXCEPT
                          !.expires = IF marks THEN mark_trusted(fn_in.r, @, fn_in.now) ELSE @]
  /\ UNCHANGED pipeVars

TrustTick ==
  /\ fn_in.fn = "trust" /\ fn_in.now < MaxTicks * TrustTickSeconds
  /\ fn_in' = [fn_in EXCEPT !.now = @ + TrustTickSeconds]
  /\ UNCHANGED <<pipeVars, fn_out>>

NextTrust == TrustGate \/ TrustTick

SpecTrust == InitTrust /\ [][NextTrust]_vars

\* ------------------------- backend/main.py: extract, embed, index in one run
\* build_faiss_index (backend/libs/build_faiss_index.py, lines 21-35) on the
\* embeddings file `data`: "skipped" when the index file exists and force is
\* off, "raised" on an empty list or on rows of unequal length, else the index
\* built from all the embeddings of the file
build_faiss_index(data, index_exists, f) ==
  IF index_exists /\ ~f THEN [result |-> "skipped", index |-> IndexFlatL2(0)]
  ELSE IF data = <<>> THEN [result |-> "raised", index |-> IndexFlatL2(0)]
  ELSE LET vectors == [k \in 1..Len(data) |-> data[k].embedding] IN
       IF ~Homogeneous(vectors) THEN [result |-> "raised", index |-> IndexFlatL2(0)]
       ELSE [result |-> "written", index |-> IndexAdd(IndexFlatL2(Len(vectors[1])), vectors)]

\* main, lines 57-63: step 3, after generate_embeddings has returned
MainBuildIndex ==
  /\ impl = "backend" /\ pc = "done" /\ outcome = "returned"
  /\ LET b == build_faiss_index(EmbRecs, index_file # <<>>, force) IN
     /\ index_file' = IF b.result = "written" THEN <<b.index>> ELSE index_file
     /\ outcome' = IF b.result = "raised" THEN "raised" ELSE "completed"
  /\ UNCHANGED <<impl, chunks_file, metadata_file, emb_file, pc, force, chunks, ci,
                 seen_hashes, existing_metadata, existing_index, new_embeddings, new_metadata,
                 index_mem, total_metadata, hist, fn_in, fn_out>>

\* the process of main exits once step 3 is over
MainExit == outcome # "returned" /\ Exit

InitMain ==
  /\ impl = "backend"
  /\ chunks_file = <<>>
  /\ index_file = <<>> /\ metadata_file = <<>> /\ emb_file = <<>>
  /\ pc = "idle" /\ force = FALSE /\ chunks = <<>> /\ ci = 1
  /\ seen_hashes = {} /\ existing_metadata = <<>> /\ existing_index = <<>>
  /\ new_embeddings = <<>> /\ new_metadata = <<>>
  /\ index_mem = IndexFlatL2(0) /\ total_metadata = <<>>
  /\ outcome = "none" /\ hist = Hist0
  /\ fnIdle

NextMain ==
  \/ IngestChunks
  \/ BeStartRun
  \/ BeEmbedChunk
  \/ BeFinish
  \/ MainBuildIndex
  \/ MainExit

SpecMain == InitMain /\ [][NextMain]_vars

\* ------------------- services/mr-m/libs/ratelimiter.py: the three-backend limiter
\* one IP on one UTC day: the key ratelimit:v3:<day>:<ip> has a counter of its
\* own in DynamoDB, in Redis and in the process's _mem (0 = no item)
RATE_LIMIT_mrm == 6
MaxQuotaCalls == 8

\* what a backend does on one call: it answers, or it raises before or after
\* its increment took effect
BackendOutcomes == {"ok", "error_before", "error_after"}

\* _ddb_check_and_increment (lines 37-51) and _redis_check_and_increment
\* (lines 84-93): increment, then compare the new value with RATE_LIMIT
CounterStep(count, answer) ==
  [count |-> IF answer = "error_before" THEN count ELSE count + 1,
   raised |-> answer # "ok",
   allowed |-> count + 1 <= RATE_LIMIT_mrm]

\* check_and_increment_ip, lines 129-143
check_and_increment_ip(s, ddb_outcome, redis_outcome) ==
  LET ddb == CounterStep(s.ddb, ddb_outcome)
      red == CounterStep(s.redis, redis_outcome)
      ddb_count == IF s.table_name THEN ddb.count ELSE s.ddb
      ddb_returns == s.table_name /\ ~ddb.raised
      redis_tried == ~ddb_returns /\ s.redis_host
      redis_count == IF redis_tried THEN red.count ELSE s.redis
      redis_returns == redis_tried /\ ~red.raised
      mem_tried == ~ddb_returns /\ ~redis_returns
  IN  [ddb |-> ddb_count, redis |-> redis_count,
       mem |-> IF mem_tried THEN s.mem + 1 ELSE s.mem,
       result |-> IF ddb_returns THEN ddb.allowed
                  ELSE IF redis_returns THEN red.allowed
                  ELSE s.mem + 1 <= RATE_LIMIT_mrm,
       erred |-> (s.table_name /\ ddb.raised) \/ (redis_tried /\ red.raised)]

InitQuota ==
  /\ PipeIdle
  /\ \E table_name, redis_host \in BOOLEAN :
       fn_in = [fn |-> "quota", table_name |-> table_name, redis_host |-> redis_host,
                ddb |-> 0, redis |-> 0, mem |-> 0,
                calls |-> 0, trues |-> 0, erred |-> FALSE]
  /\ fn_out = <<>>

\* one chat request of the IP reaches app.py line 156
CallCheckAndIncrement ==
  /\ fn_in.fn = "quota" /\ fn_in.calls < MaxQuotaCalls
  /\ \E ddb_outcome, redis_outcome \in BackendOutcomes :
       LET c == check_and_increment_ip(fn_in, ddb_outcome, redis_outcome) IN
       /\ fn_in' = [fn_in EXCEPT !.ddb = c.ddb, !.redis = c.redis, !.mem = c.mem,
                                 !.calls = @ + 1,
                                 !.trues = IF c.result THEN @ + 1 ELSE @,
                                 !.erred = @ \/ c.erred]
       /\ fn_out' = <<c.result>>
  /\ UNCHANGED pipeVars

NextQuota == CallCheckAndIncrement

SpecQuota == InitQuota /\ [][NextQuota]_vars

\* ----------------- backend/extract_knowledge.py: split_text_into_chunks, by tokens
MaxChunkTokens == 3
MaxOverlapTokens == 3
MaxLoop == 6

\* encoding.encode(text) of a text of n tokens: the token at each position
\* (tokens are told apart by their position in the text)
TokensOfLen(n) == [k \in 1..n |-> k]

\* tokens[start:end] with Python's slicing: a negative bound counts from the
\* end, and both bounds are clipped to the list
SliceBound(i, len) ==
  IF i < 0 THEN (IF i + len < 0 THEN 0 ELSE i + len)
  ELSE (IF i > len THEN len ELSE i)
PySlice(s, start, end) ==
  LET a == SliceBound(start, Len(s))
      b == SliceBound(end, Len(s))
  IN  IF a >= b THEN <<>> ELSE SubSeq(s, a + 1, b)

Min(a, b) == IF a <= b THEN a ELSE b

\* every start at or below StartFloor gives the same iteration: the loop test
\* holds and the slice is empty, so the starts below it are kept as StartFloor
StartFloor == 0 - (MaxTokens + MaxChunkTokens)

\* lines 25-27: tokens, chunks = [], start = 0
\* (chunks records the first MaxLoop chunks appended, iter the parity of the
\* number of iterations made)
InitChunking ==
  /\ PipeIdle
  /\ \E n \in 0..MaxTokens, max_tokens \in 1..MaxChunkTokens, overlap \in 0..MaxOverlapTokens :
       fn_in = [fn |-> "split_text_into_chunks", tokens |-> TokensOfLen(n),
                max_tokens |-> max_tokens, overlap |-> overlap]
  /\ fn_out = <<[start |-> 0, chunks |-> <<>>, iter |-> 0, returned |-> FALSE]>>

\* lines 28-32: one iteration of the while loop
ChunkLoop ==
  /\ fn_in.fn = "split_text_into_chunks" /\ ~fn_out[1].returned
  /\ fn_out[1].start < Len(fn_in.tokens)
  /\ LET start == fn_out[1].start
         end == Min(start + fn_in.max_tokens, Len(fn_in.tokens))
         chunk == PySlice(fn_in.tokens, start, end)
         next == start + fn_in.max_tokens - fn_in.overlap
     IN  fn_out' = <<[start |-> IF next < StartFloor THEN StartFloor ELSE next,
                      chunks |-> IF Len(fn_out[1].chunks) < MaxLoop
                                   THEN Append(fn_out[1].chunks, chunk)
                                   ELSE fn_out[1].chunks,
                      iter |-> 1 - fn_out[1].iter,
                      returned |-> FALSE]>>
  /\ UNCHANGED <<pipeVars, fn_in>>

\* lines 28 and 33: the loop test fails and the chunks are returned
ChunkReturn ==
  /\ fn_in.fn = "split_text_into_chunks" /\ ~fn_out[1].returned
  /\ ~(fn_out[1].start < Len(fn_in.tokens))
  /\ fn_out' = <<[fn_out[1] EXCEPT !.returned = TRUE]>>
  /\ UNCHANGED <<pipeVars, fn_in>>

NextChunking == ChunkLoop \/ ChunkReturn

SpecChunking == InitChunking /\ [][NextChunking]_vars /\ WF_vars(NextChunking)

\* ================================================================== claims
\* the content hash of a persisted record, and of a chunk as the stage computes it
RecordHash(r) == IF impl = "mrm" THEN get_text_hash(r.embedding_input) ELSE get_text_hash(r.text)
ChunkHash(c) ==
  IF impl = "mrm"
    THEN get_text_hash(EmbeddingInput(c.source_path, c.title, Strip(c.text)))
    ELSE get_text_hash(c.text)
Store == IF impl = "mrm" THEN MetaRecs ELSE EmbRecs
PreStore ==
  IF impl = "mrm" THEN (IF hist.pre_meta = <<>> THEN <<>> ELSE hist.pre_meta[1])
  ELSE (IF hist.pre_emb = <<>> THEN <<>> ELSE hist.pre_emb[1])
FilesUntouched ==
  /\ index_file = hist.pre_index
  /\ metadata_file = hist.pre_meta
  /\ emb_file = hist.pre_emb

\* C1: whenever a generate_embeddings run of the index-building script has
\* returned, the persisted index holds as many vectors as the persisted
\* metadata has records
T_C1 == (impl = "mrm" /\ Returned) => Len(IndexVecs) = Len(MetaRecs)

\* an update run that loaded an existing pair has appended to it and returned
W_C1 == /\ impl = "mrm" /\ Returned /\ hist.loaded /\ hist.wrote
        /\ Len(MetaRecs) >= 2

\* C2: a non-force run that loaded N records leaves positions 1..N of index
\* and metadata as they were, puts new records only after them, and at every
\* new position stores the vector the provider returned for that record
T_C2 ==
  (impl = "mrm" /\ pc = "done" /\ hist.loaded) =>
    LET N == Len(PreStore) IN
    /\ Len(MetaRecs) >= N /\ Len(IndexVecs) >= N
    /\ SubSeq(MetaRecs, 1, N) = PreStore
    /\ SubSeq(IndexVecs, 1, N) = hist.pre_index[1].vecs
    /\ Len(IndexVecs) = Len(MetaRecs)
    /\ Len(MetaRecs) - N \in {0, Len(hist.log)}
    /\ \A j \in 1..(Len(MetaRecs) - N) :
         /\ MetaRecs[N + j].embedding_input = hist.log[j].input
         /\ IndexVecs[N + j] = hist.log[j].vec

\* an update run appended a record after at least one existing record
W_C2 == /\ impl = "mrm" /\ Returned /\ hist.loaded /\ ~force
        /\ Len(PreStore) >= 1
        /\ Len(MetaRecs) > Len(PreStore)

\* C3: no two records of the persisted store have the same content hash, and
\* content already in the store that a non-force run meets again is there
\* exactly once when the run has returned
T_C3 ==
  /\ \A a, b \in 1..Len(Store) : a # b => RecordHash(Store[a]) # RecordHash(Store[b])
  /\ (Returned /\ ~force) =>
       \A k \in 1..Len(chunks) :
         (\E a \in 1..Len(PreStore) : RecordHash(PreStore[a]) = ChunkHash(chunks[k]))
           => Cardinality({ a \in 1..Len(Store) : RecordHash(Store[a]) = ChunkHash(chunks[k]) }) = 1

\* a second run met content the store already held, next to other content
W_C3 == /\ Returned /\ ~force
        /\ Len(Store) >= 2
        /\ \E k \in 1..Len(chunks) : \E a \in 1..Len(PreStore) :
             /\ RecordHash(PreStore[a]) = ChunkHash(chunks[k])
             /\ PreStore[a].id # chunks[k].id

CX_C5 ==
  hist.mismatch =>
    /\ ~hist.wrote
    /\ pc \notin {"write_index", "write_meta"}
    /\ pc = "done" => outcome # "returned"

\* C6: every chunk yielded by split_text has at most chunk_size words, except
\* possibly the last chunk yielded for a paragraph; stated for the default
\* overlap (50) and texts in which no sentence is longer than chunk_size
CX_C6 ==
  (/\ fn_in.fn = "split_text" /\ fn_out # <<>>
   /\ fn_in.overlap = 50
   /\ \A p \in 1..Len(fn_in.text) : \A k \in 1..Len(fn_in.text[p]) :
        Len(fn_in.text[p][k]) <= fn_in.chunk_size) =>
    LET res == fn_out[1] IN
    \A k \in 1..Len(res) :
      \/ Words(res[k].sents) <= fn_in.chunk_size
      \/ k = Len(res)
      \/ res[k + 1].para # res[k].para

RagCalled == fn_in.fn = "build_rag_query" /\ fn_out # <<>>
CurrentTokenCount == Len(Encode(fn_in.current_message))

\* C7: when the current message has at most max_tokens tokens, the query of
\* both implementations has the whole current message as its last component
CX_C7 ==
  (RagCalled /\ CurrentTokenCount <= fn_in.max_tokens) =>
    /\ fn_out[1].mrm.parts # <<>>
    /\ fn_out[1].mrm.parts[Len(fn_out[1].mrm.parts)] = fn_in.current_message
    /\ fn_out[1].backend.parts # <<>>
    /\ fn_out[1].backend.parts[Len(fn_out[1].backend.parts)] = fn_in.current_message

RECURSIVE UserMessages(_)
UserMessages(history) ==
  IF history = <<>> THEN <<>>
  ELSE (IF Head(history).role = "user" THEN <<Head(history).content>> ELSE <<>>)
         \o UserMessages(Tail(history))

RECURSIVE TokenSum(_)
TokenSum(msgs) == IF msgs = <<>> THEN 0 ELSE Len(Encode(Head(msgs))) + TokenSum(Tail(msgs))

LastN(msgs, n) == SubSeq(msgs, Len(msgs) - n + 1, Len(msgs))

\* C9: the history messages included are the longest run of most recent user
\* messages whose tokens fit in max_tokens minus the tokens of the current
\* message, in chronological order before the current message; no assistant
\* message is included; the tokens of all included messages are at most max_tokens
T_C9 ==
  RagCalled =>
    LET U == UserMessages(fn_in.history)
        sel == fn_out[1].mrm.history
        n == Len(sel)
        budget == fn_in.max_tokens - CurrentTokenCount
    IN  /\ n <= Len(U)
        /\ sel = LastN(U, n)
        /\ budget < 0 => n = 0
        /\ budget >= 0 =>
             /\ TokenSum(sel) <= budget
             /\ n < Len(U) => TokenSum(LastN(U, n + 1)) > budget
             /\ fn_out[1].mrm.parts = Append(sel, fn_in.current_message)
        /\ TokenSum(fn_out[1].mrm.parts) <= fn_in.max_tokens

\* the most recent user message was included and an older one was dropped,
\* with an assistant message in the history
W_C9 ==
  /\ RagCalled
  /\ TokenSum(fn_out[1].mrm.history) >= 1
  /\ Len(fn_out[1].mrm.history) < Len(UserMessages(fn_in.history))
  /\ \E k \in 1..Len(fn_in.history) : fn_in.history[k].role = "assistant"

\* the records of the positions the search returned that lie inside the metadata, in order
RECURSIVE RecordsOf(_, _)
RecordsOf(indices, metadata) ==
  IF indices = <<>> THEN <<>>
  ELSE (IF Head(indices) >= 0 /\ Head(indices) < Len(metadata)
          THEN <<MetaRecord(Head(indices))>> ELSE <<>>)
         \o RecordsOf(Tail(indices), metadata)

\* C10: for every list the search returns, query_index raises no error, drops
\* every position at or beyond len(metadata) and returns the records of the
\* other positions in the order returned; the context joins them in that order
CX_C10 ==
  (fn_in.fn = "query_index" /\ fn_out # <<>>) =>
    /\ ~fn_out[1].raised
    /\ fn_out[1].results = RecordsOf(fn_in.indices, fn_in.metadata)
    /\ fn_out[1].context = Context(RecordsOf(fn_in.indices, fn_in.metadata))

StoreQueried == fn_in.fn = "round_trip" /\ fn_out # <<>>

\* the positions of the saved index whose vector equals the one at position p
SameVector(p) == { q \in 0..(ntotal(index_mem) - 1) : index_mem.vecs[q + 1] = index_mem.vecs[p + 1] }

Steps == hist.steps
PreHashes == IF hist.loaded THEN { RecordHash(PreStore[a]) : a \in 1..Len(PreStore) } ELSE {}
NonEmpty(k) == Strip(chunks[k].text) # <<>>
Duplicate(k) ==
  \/ ChunkHash(chunks[k]) \in PreHashes
  \/ \E j \in 1..(k - 1) : NonEmpty(j) /\ ChunkHash(chunks[j]) = ChunkHash(chunks[k])
\* every attempt for chunk k raised / the provider answered chunk k with a vector
AllFailed(k) == Steps[k].calls > 0 /\ ~Steps[k].ok
Succeeded(k) == Steps[k].ok /\ Steps[k].vec # <<>>
RunStarted == pc \in {"embed", "write_index", "write_meta", "done"} /\ outcome # "crashed"

\* C12: in both embedding stages the loop of embed_chunks goes through every
\* chunk whatever calls fail; a chunk whose call failed on every attempt
\* leaves no record; every non-empty, non-duplicate chunk is submitted to the
\* provider, and each one the provider answered with a vector has its record
\* and that vector in the output
T_C12 ==
  RunStarted =>
    /\ Len(Steps) = (IF pc = "embed" THEN ci - 1 ELSE Len(chunks))
    /\ \A k \in 1..Len(Steps) :
         /\ Steps[k].calls > 0 <=> (NonEmpty(k) /\ ~Duplicate(k))
         /\ AllFailed(k) =>
              \A j \in 1..Len(new_metadata) : RecordHash(new_metadata[j]) # ChunkHash(chunks[k])
         /\ Succeeded(k) =>
              \E j \in 1..Len(new_metadata) :
                /\ new_metadata[j].id = chunks[k].id
                /\ RecordHash(new_metadata[j]) = ChunkHash(chunks[k])
                /\ new_embeddings[j] = Steps[k].vec

\* the first chunk failed on every attempt and the chunk after it was embedded
W_C12 ==
  /\ Returned /\ Len(Steps) >= 2
  /\ AllFailed(1) /\ Steps[1].calls = Retries
  /\ Succeeded(2)
  /\ Len(new_metadata) = 1 /\ new_metadata[1].id = chunks[2].id

RetryCalled == fn_in.fn = "retry_with_backoff" /\ fn_out # <<>>
\* the calls of fn, among the first `retries`, that return
ReturningCalls == { a \in 1..fn_in.retries : ~fn_in.outs[a].err }

RetryContract ==
  RetryCalled =>
    LET r == fn_out[1] IN
    /\ r.calls <= fn_in.retries
    /\ r.ok <=> ReturningCalls # {}
    /\ r.ok =>
         /\ r.calls \in ReturningCalls
         /\ \A a \in ReturningCalls : r.calls <= a
         /\ r.value = fn_in.outs[r.calls].embedding
    /\ ~r.ok => r.calls = fn_in.retries

\* C13: retry_with_backoff(fn, retries) ends; it calls fn at most `retries`
\* times; when some call among the first `retries` returns, it returns the
\* result of the first such call and makes no call after it; it raises
\* RuntimeError exactly when all `retries` calls raised
T_C13 == []RetryContract /\ <>(fn_out # <<>>)

\* fn raised four times and returned at the fifth and last attempt
W_C13 ==
  /\ RetryCalled /\ fn_in.retries = 5
  /\ fn_out[1].ok /\ fn_out[1].calls = 5

\* C14: every vector the embedding stage has accepted (in the list built by
\* embed_chunks, in the embedding records, in the index) is a non-empty list,
\* and a chunk the provider answered with an empty vector leaves no record
CX_C14 ==
  /\ \A j \in 1..Len(new_embeddings) : new_embeddings[j] # <<>>
  /\ \A j \in 1..Len(IndexVecs) : IndexVecs[j] # <<>>
  /\ \A j \in 1..Len(EmbRecs) : EmbRecs[j].embedding # <<>>
  /\ RunStarted =>
       \A k \in 1..Len(Steps) :
         (Steps[k].ok /\ Steps[k].vec = <<>>) =>
           \A j \in 1..Len(new_metadata) : RecordHash(new_metadata[j]) # ChunkHash(chunks[k])

\* the provider calls of the current run made for the content of chunk k
RECURSIVE CallsFor(_, _)
CallsFor(k, upto) ==
  IF upto = 0 THEN 0
  ELSE (IF ChunkHash(chunks[upto]) = ChunkHash(chunks[k]) THEN Steps[upto].calls ELSE 0)
         + CallsFor(k, upto - 1)

\* C15: within one run the provider is called at most `retries` (5) times in
\* total for one content hash, and after a chunk has used up its attempts no
\* later chunk of the run with the same content causes a provider call
T_C15 ==
  RunStarted =>
    \A k \in 1..Len(Steps) :
      /\ CallsFor(k, Len(Steps)) <= Retries
      /\ AllFailed(k) =>
           \A j \in (k + 1)..Len(Steps) :
             ChunkHash(chunks[j]) = ChunkHash(chunks[k]) => Steps[j].calls = 0

\* a chunk failed at all five attempts and a later chunk with another id and
\* the same content was passed over without a call
W_C15 ==
  /\ Returned /\ Len(Steps) >= 2
  /\ AllFailed(1) /\ Steps[1].calls = Retries
  /\ chunks[2].id # chunks[1].id
  /\ ChunkHash(chunks[2]) = ChunkHash(chunks[1])
  /\ Steps[2].calls = 0

ExtractRun == fn_in.fn = "extract_chunks"

\* C16: in a run over several HTML documents that share one seen-link set,
\* empty at the start, no resolved link is fetched twice
CX_C16 ==
  (ExtractRun /\ fn_in.seen0 = {}) =>
    \A a, b \in 1..Len(fn_out[1].fetched) :
      a # b => fn_out[1].fetched[a] # fn_out[1].fetched[b]

\* the links of a document that are to be read: neither rejected by
\* is_probably_html nor already in the set when their turn comes, and not a
\* missing local path
RECURSIVE Followed(_, _, _)
Followed(links, seen, outcomes) ==
  IF links = <<>> THEN <<>>
  ELSE LET link == Head(links) IN
       IF link.kind = "asset" \/ link.key \in seen THEN Followed(Tail(links), seen, outcomes)
       ELSE (IF OutcomeOf(link, outcomes) \in {"ok", "fail"} THEN <<link>> ELSE <<>>)
              \o Followed(Tail(links), seen \cup {link.key}, outcomes)

RECURSIVE TextsOfOk(_, _)
TextsOfOk(links, outcomes) ==
  IF links = <<>> THEN <<>>
  ELSE (IF OutcomeOf(Head(links), outcomes) = "ok" THEN LinkedText(Head(links)) ELSE <<>>)
         \o TextsOfOk(Tail(links), outcomes)

\* C17: whatever links fail, every link of the document that is to be
\* followed is followed, the pages that could be read contribute their text,
\* and process_html_file returns chunks that begin with the document's own text
CX_C17 ==
  ExtractRun =>
    \A d \in 1..Len(fn_out[1].results) :
      LET r == fn_out[1].results[d]
          before == IF d = 1 THEN fn_in.seen0 ELSE fn_out[1].results[d - 1].seen_links
          todo == Followed(fn_in.docs[d], SeenOrNew(before), fn_in.outcomes)
      IN  /\ r.fetched = [k \in 1..Len(todo) |-> todo[k].key]
          /\ r.chunks # <<>>
          /\ Flatten(r.chunks[1]) = Flatten(BaseText \o TextsOfOk(todo, fn_in.outcomes))

\* C18: however the 600-word paragraph is cut into sentences, chunking with
\* chunk_size = 500 and the default overlap emits exactly two chunks, the
\* second with fewer words than the first, both with more than 10 words
CX_C18 ==
  (fn_in.fn = "process_html_file" /\ fn_out # <<>>) =>
    LET cs == fn_out[1].chunks IN
    /\ Len(cs) = 2
    /\ Words(cs[2]) < Words(cs[1])
    /\ Words(cs[1]) > MinWords /\ Words(cs[2]) > MinWords

\* the chunks yielded for paragraph p, in the order of the yields
RECURSIVE ChunksOfPara(_, _)
ChunksOfPara(res, p) ==
  IF res = <<>> THEN <<>>
  ELSE (IF Head(res).para = p THEN <<Head(res).sents>> ELSE <<>>) \o ChunksOfPara(Tail(res), p)

\* cs[i] is the run of sentences of the paragraph that starts at position f[i];
\* the first run starts at the first sentence, the last one ends at the last
\* sentence, and each run starts no later than just after the one before it
CoversInOrder(sentences, cs, f) ==
  /\ \A i \in 1..Len(cs) :
       /\ cs[i] # <<>>
       /\ f[i] + Len(cs[i]) - 1 <= Len(sentences)
       /\ cs[i] = SubSeq(sentences, f[i], f[i] + Len(cs[i]) - 1)
  /\ f[1] = 1
  /\ f[Len(cs)] + Len(cs[Len(cs)]) - 1 = Len(sentences)
  /\ \A i \in 1..(Len(cs) - 1) :
       /\ f[i] <= f[i + 1]
       /\ f[i + 1] <= f[i] + Len(cs[i])

\* C19: every chunk yielded by split_text is made of one or more whole
\* sentences of one paragraph, consecutive and in their order in the
\* paragraph, and every sentence of a paragraph is in a chunk yielded for it
T_C19 ==
  (fn_in.fn = "split_text" /\ fn_out # <<>>) =>
    /\ \A c \in 1..Len(fn_out[1]) :
         fn_out[1][c].para \in 1..Len(fn_in.text) /\ fn_in.text[fn_out[1][c].para] # <<>>
    /\ \A p \in 1..Len(fn_in.text) :
         fn_in.text[p] # <<>> =>
           LET cs == ChunksOfPara(fn_out[1], p) IN
           /\ cs # <<>>
           /\ \E f \in [1..Len(cs) -> 1..Len(fn_in.text[p])] :
                CoversInOrder(fn_in.text[p], cs, f)

\* a paragraph of three sentences was yielded as two chunks that share a
\* carried-over sentence, in a text of two paragraphs
W_C19 ==
  /\ fn_in.fn = "split_text" /\ fn_out # <<>>
  /\ Len(fn_in.text) = 2 /\ Len(fn_in.text[1]) = 3 /\ fn_in.text[2] # <<>>
  /\ Len(ChunksOfPara(fn_out[1], 1)) = 2
  /\ Len(ChunksOfPara(fn_out[1], 1)[1]) + Len(ChunksOfPara(fn_out[1], 1)[2]) = 4

ChatAnswered == fn_in.fn = "chat" /\ fn_out # <<>>
\* the request got past the gates and the store had to be read from files
\* of which one was absent or unreadable
LoadFailed ==
  /\ fn_out[1].req.message # <<>> /\ fn_out[1].req.burst_ok
  /\ fn_out[1].req.trusted \/ fn_out[1].req.challenge_ok
  /\ fn_out[1].req.daily_ok
  /\ fn_out[1].cache_before = <<>>
  /\ \/ ~fn_out[1].index_there
     \/ ~fn_out[1].metadata_there
     \/ fn_out[1].req.read_error

\* C20: a chat request for which the index or the metadata cannot be loaded is
\* answered with an error (HTTP 500 and an error message), no prompt is
\* assembled and the generation model is not called
T_C20 ==
  (ChatAnswered /\ LoadFailed) =>
    /\ fn_out[1].status = 500 /\ fn_out[1].error # ""
    /\ ~fn_out[1].prompted /\ ~fn_out[1].model_called
    /\ fn_in.cache = <<>>

\* the metadata file was absent at a second request that passed every gate,
\* with the index file in place
W_C20 ==
  /\ ChatAnswered /\ LoadFailed
  /\ fn_in.served = 2
  /\ fn_out[1].index_there /\ ~fn_out[1].metadata_there /\ ~fn_out[1].req.read_error
  /\ ~fn_out[1].req.embed_error /\ ~fn_out[1].req.model_error

\* the requests that have searched a loaded pair
Searched == IF fn_in.fn = "serve" THEN fn_out ELSE <<>>

\* C21: whatever the interleaving of the requests, load_vector_store reads the
\* pair from disk at most once in the life of the process, and all requests
\* that search do so on one and the same pair, the cached one
CX_C21 ==
  fn_in.fn = "serve" =>
    /\ fn_in.reads <= 1
    /\ \A j, k \in 1..Len(Searched) : Searched[j].pair = Searched[k].pair
    /\ \A j \in 1..Len(Searched) : fn_in.cache = <<Searched[j].pair>>

\* the run in progress was started without --force when exactly one of the
\* index file and the metadata file existed
StartedOnHalfStore ==
  /\ impl = "mrm" /\ RunStarted /\ ~force
  /\ (hist.pre_index = <<>>) # (hist.pre_meta = <<>>)

\* C22: a non-force run of the script's generate_embeddings that finds exactly
\* one of the two files stops with an error before any chunk is embedded, and
\* the file that exists is left as it was
CX_C22 ==
  StartedOnHalfStore =>
    /\ pc = "done" /\ outcome = "raised"
    /\ hist.steps = <<>>
    /\ index_file = hist.pre_index /\ metadata_file = hist.pre_meta

LimiterRuns == fn_in.fn = "limit"

\* C23: in the backend limiter, a call that finds the counter at RATE_LIMIT
\* returns False, at most RATE_LIMIT calls return True while the key lives,
\* and the stored counter never exceeds RATE_LIMIT, whatever the interleaving
CX_C23 ==
  LimiterRuns =>
    /\ \A t \in Threads :
         (fn_in.th[t].result # "none" /\ fn_in.th[t].current >= RATE_LIMIT)
           => fn_in.th[t].result = "false"
    /\ fn_in.admitted <= RATE_LIMIT
    /\ fn_in.count <= RATE_LIMIT

\* C24: in the backend limiter the key of an IP expires WINDOW_SECONDS after
\* the first admitted request of the window, however many requests follow
CX_C24 ==
  (LimiterRuns /\ fn_in.count # 0) => fn_in.expires = fn_in.first + WINDOW_SECONDS

GateLog == IF fn_in.fn = "trust" THEN fn_out ELSE <<>>

\* C25: a request of an IP that comes less than TRUST_TTL_SECONDS after
\* mark_trusted ran for that IP finds is_trusted True and passes the gate
\* without a challenge
CX_C25 ==
  \A i, j \in 1..Len(GateLog) :
    (i < j /\ GateLog[i].marked /\ GateLog[j].at < GateLog[i].at + TRUST_TTL_SECONDS)
      => /\ GateLog[j].trusted
         /\ ~GateLog[j].challenged
         /\ GateLog[j].status # 403

\* the positions of a search answer that are not padding
RECURSIVE Found(_)
Found(indices) ==
  IF indices = <<>> THEN <<>>
  ELSE (IF Head(indices) = -1 THEN <<>> ELSE <<Head(indices)>>) \o Found(Tail(indices))

\* C26: when the index holds fewer than top_k vectors (the answer is padded
\* with -1), query_index returns at most as many records as the index holds,
\* and what it returns is what it returns for the answer without its padding
CX_C26 ==
  (fn_in.fn = "query_index" /\ fn_out # <<>> /\ fn_in.ntotal < fn_in.top_k) =>
    /\ ~fn_out[1].raised
    /\ Len(fn_out[1].results) <= fn_in.ntotal
    /\ fn_out[1].results = query_index(Found(fn_in.indices), fn_in.metadata).results

MainCompleted == impl = "backend" /\ pc = "done" /\ outcome = "completed"

\* C27: when a run of the backend main() has completed, the index file holds
\* one vector per record of the embeddings file, in the order of the records
CX_C27 ==
  MainCompleted =>
    /\ index_file # <<>>
    /\ IndexVecs = [k \in 1..Len(EmbRecs) |-> EmbRecs[k].embedding]

\* C28: at every point of a run of the script's generate_embeddings, between
\* the two writes of save_faiss_index included, the index file holds at least
\* as many vectors as the metadata file has records
CX_C28 ==
  (impl = "mrm" /\ pc # "idle") => Len(IndexVecs) >= Len(MetaRecs)

\* C29: whatever backends raise on whatever calls, the services/mr-m
\* check_and_increment_ip returns True at most RATE_LIMIT times for one IP
\* within one UTC day
CX_C29 ==
  fn_in.fn = "quota" => fn_in.trues <= RATE_LIMIT_mrm

ChunkingReturned == fn_in.fn = "split_text_into_chunks" /\ fn_out[1].returned

\* C30: for every token sequence, max_tokens >= 1 and overlap >= 0 the call of
\* split_text_into_chunks returns, and when it has returned every chunk has at
\* most max_tokens tokens and every token of the input is in some chunk
CX_C30 ==
  /\ <>ChunkingReturned
  /\ [](ChunkingReturned =>
         /\ \A j \in 1..Len(fn_out[1].chunks) : Len(fn_out[1].chunks[j]) <= fn_in.max_tokens
         /\ \A k \in 1..Len(fn_in.tokens) :
              \E j \in 1..Len(fn_out[1].chunks) : fn_in.tokens[k] \in Range(fn_out[1].chunks[j]))

=============================================================================
